---- MODULE Spec2Model ----
(***************************************************************************)
(* A model of the openclaw-threema bridge and plugin.                      *)
(*                                                                         *)
(* Part 1 (Spec, FairSpec): the Go bridge process of src/index.ts lines    *)
(* 58-453: the Bridge struct, the read loop, the write loop, Run, the      *)
(* signal goroutine, the transport callbacks of createHandler and the      *)
(* reconnect goroutines of scheduleReconnect.  The go-threema library is   *)
(* outside the repository: Identify is a pure function of the credentials, *)
(* Connect and SendText may fail, a live connection may raise any of its   *)
(* callbacks at any time, and a connection closed by the bridge may or may *)
(* not still deliver its Closed callback.                                  *)
(*                                                                         *)
(* Part 2 (WebhookSpec): the inbound webhook pipeline of receive.ts        *)
(* (src/pkg/bridge/protocol_test.go lines 155-394) with the codec and MAC  *)
(* of src/src/crypto.ts.                                                   *)
(***************************************************************************)
EXTENDS Integers, Sequences, FiniteSets, TLC

(***************************************************************************)
(* Bounds of the model.                                                    *)
(***************************************************************************)
\* connections the transport opens in one run
MaxConns == 2
\* reconnect goroutines spawned in one run
MaxTasks == 1
\* in ReconnectSpec: the reconnect goroutines that run side by side
MaxCycles == 2
\* the attempt counter of a reconnect goroutine saturates here; the code
\* reads it only through min(attempt, len(delays)-1) and a log line
MaxAttempt == 6
\* capacity of the output channel: make(chan *bridge.Event, 100), scaled down
OutputCap == 1
\* webhook requests in one run
MaxReqs == 2
\* capacity of the sender key cache: MAX_CACHE_SIZE = 1000, scaled down
MAX_CACHE_SIZE == 2
\* messages handed to padMessage have up to MaxBlocks * 256 + 1 bytes
MaxBlocks == 2
\* the calls of sendText in progress together
MaxSends == 2
\* in PluginSpec: the deliveries, and the cached sends, in progress together
MaxInFlight == 1

(***************************************************************************)
(* Program constants.                                                      *)
(***************************************************************************)
\* scanner.Buffer(make([]byte, 1024*1024), 1024*1024)
MaxScanTokenSize == 1048576

\* delays := []time.Duration{1s, 2s, 5s, 10s, 30s, 60s}, in seconds
delays == <<1, 2, 5, 10, 30, 60>>

Min(a, b) == IF a < b THEN a ELSE b

\* bridge.CmdConnect .. bridge.CmdPing
CmdConnect == "connect"
CmdSend == "send"
CmdTrust == "trust"
CmdPing == "ping"

\* bridge.EventConnected .. bridge.EventPong; an event is modelled by its kind
EventConnected == "connected"
EventMessage == "message"
EventError == "error"
EventPong == "pong"

(***************************************************************************)
(* Input lines on stdin.  json says whether json.Unmarshal accepts the     *)
(* line, size is its length in bytes without the newline.                  *)
(***************************************************************************)
Command(c, b, p, t, k, x) ==
  [size |-> 16, json |-> TRUE, cmd |-> c, backup |-> b, password |-> p,
   to |-> t, pubkey |-> k, text |-> x]

EmptyLine == [Command("", "", "", "", "", "") EXCEPT !.size = 0, !.json = FALSE]
BadJsonLine == [Command("", "", "", "", "", "") EXCEPT !.json = FALSE]
LongLine == [BadJsonLine EXCEPT !.size = MaxScanTokenSize]

Lines ==
  { EmptyLine, BadJsonLine, LongLine,
    Command(CmdConnect, "b1", "p1", "", "", ""),
    Command(CmdConnect, "b1", "p2", "", "", ""),
    Command(CmdConnect, "b1", "", "", "", ""),
    Command(CmdSend, "", "", "ABCD1234", "", "Hello!"),
    Command(CmdSend, "", "", "ABCD1234", "key==", "Hi"),
    Command(CmdSend, "", "", "", "", "Hello!"),
    Command(CmdSend, "", "", "ABCD1234", "", ""),
    Command(CmdTrust, "", "", "EFGH5678", "pubkey==", ""),
    Command(CmdTrust, "", "", "EFGH5678", "", ""),
    Command(CmdPing, "", "", "", "", ""),
    Command("status", "", "", "", "", "") }

\* ParseCommand: json.Unmarshal into a Command; any cmd value is accepted
ParseCommand(l) == [ok |-> l.json, cmd |-> l.cmd]

\* threema.Identify(backup, password): decodes the identity backup; it
\* yields an identity for the one valid credential pair and fails otherwise
NoId == "nil"
Identify(b, p) == IF b = "b1" /\ p = "p1" THEN "MYID1234" ELSE NoId

VARIABLES
  id,        \* Bridge.id: NoId or the loaded identity
  conn,      \* Bridge.conn: 0 (nil) or an index into conns
  backup,    \* Bridge.backup
  password,  \* Bridge.password
  mu,        \* Bridge.mu: "free", or held by "cmd" (handleConnect) or by a "task"
  output,    \* Bridge.output: the queued events
  shutdown,  \* Bridge.shutdown is closed
  wg,        \* Bridge.wg counter
  conns,     \* transport: status of every connection opened so far
  tasks,     \* the reconnect goroutines
  runPc, sigPc, readPc, writePc,
  stdin,     \* "open" or "closed"
  panicked   \* the process died of a run-time panic

bridgeVars == <<id, conn, backup, password, mu, output, shutdown, wg, conns, tasks,
                runPc, sigPc, readPc, writePc, stdin, panicked>>

VARIABLES
  senderPublicKeyCache,  \* receive.ts: the Map, as its entries in insertion order
  reqs                   \* the webhook requests: where each is in the handler, what it did

webhookVars == <<senderPublicKeyCache, reqs>>

VARIABLES
  call,  \* the library function applied last: its name, arguments and result
  prev   \* the call before it, when its result was passed on to call

callVars == <<call, prev>>

VARIABLES
  publicKeyCache,  \* send.ts: the Map, as its entries in insertion order
  sends            \* the calls of sendText: where each is, what it asked of the gateway

sendVars == <<publicKeyCache, sends>>

vars == <<bridgeVars, webhookVars, callVars, sendVars>>

\* a free goroutine slot
NoTask == [pc |-> "none", attempt |-> 0, delay |-> 0, prev |-> 0]

\* NewBridge
NewBridge ==
  /\ id = NoId /\ conn = 0 /\ backup = "" /\ password = ""
  /\ mu = "free" /\ output = <<>> /\ shutdown = FALSE /\ wg = 0

BridgeInit ==
  /\ NewBridge
  /\ conns = <<>> /\ tasks = [i \in 1..MaxTasks |-> NoTask]
  /\ runPc = "start" /\ sigPc = "idle" /\ readPc = "idle" /\ writePc = "idle"
  /\ stdin = "open" /\ panicked = FALSE

\* the process runs until main returns or a panic kills it
alive == runPc # "done" /\ ~panicked

\* Bridge.emit: a select over the send to output, the closed shutdown channel
\* and default; the set of queues it can leave behind
emit(q, sd, e) ==
  IF Len(q) < OutputCap
  THEN {Append(q, e)} \cup (IF sd THEN {q} ELSE {})
  ELSE {q}

\* conn.Close() called by the bridge
Close(cs, c) == IF cs[c] = "live" THEN [cs EXCEPT ![c] = "closedLocal"] ELSE cs

\* the connection state of section 4.6, read off the struct and the transport
Connected == conn # 0 /\ conns[conn] = "live"

(***************************************************************************)
(* Run and the signal goroutine.                                           *)
(***************************************************************************)
\* Run: signal.Notify, the signal goroutine, wg.Add(2), go readLoop, go writeLoop
RunStart ==
  /\ alive /\ runPc = "start"
  /\ runPc' = "block" /\ sigPc' = "wait" /\ readPc' = "scan" /\ writePc' = "loop"
  /\ wg' = wg + 2
  /\ UNCHANGED <<id, conn, backup, password, mu, output, shutdown, conns, tasks,
                 stdin, panicked>>
  /\ UNCHANGED <<webhookVars, callVars, sendVars>>

\* the signal goroutine: <-sigCh; close(b.shutdown)
SignalShutdown ==
  /\ alive /\ sigPc = "wait"
  /\ sigPc' = "done"
  /\ IF shutdown
     THEN panicked' = TRUE /\ UNCHANGED shutdown
     ELSE shutdown' = TRUE /\ UNCHANGED panicked
  /\ UNCHANGED <<id, conn, backup, password, mu, output, wg, conns, tasks,
                 runPc, readPc, writePc, stdin>>
  /\ UNCHANGED <<webhookVars, callVars, sendVars>>

\* Run: <-b.shutdown; b.mu.Lock(); if b.conn != nil { b.conn.Close() }; b.mu.Unlock()
RunClose ==
  /\ alive /\ runPc = "block" /\ shutdown /\ mu = "free"
  /\ conns' = IF conn # 0 THEN Close(conns, conn) ELSE conns
  /\ runPc' = "wait"
  /\ UNCHANGED <<id, conn, backup, password, mu, output, shutdown, wg, tasks,
                 sigPc, readPc, writePc, stdin, panicked>>
  /\ UNCHANGED <<webhookVars, callVars, sendVars>>

\* Run: b.wg.Wait(), then main returns
RunWait ==
  /\ alive /\ runPc = "wait" /\ wg = 0
  /\ runPc' = "done"
  /\ UNCHANGED <<id, conn, backup, password, mu, output, shutdown, wg, conns, tasks,
                 sigPc, readPc, writePc, stdin, panicked>>
  /\ UNCHANGED <<webhookVars, callVars, sendVars>>

(***************************************************************************)
(* readLoop.                                                               *)
(***************************************************************************)
\* readLoop after the scan loop: close(b.shutdown), then the deferred wg.Done
readLoopExit ==
  IF shutdown
  THEN panicked' = TRUE /\ UNCHANGED <<shutdown, wg, readPc>>
  ELSE shutdown' = TRUE /\ wg' = wg - 1 /\ readPc' = "done" /\ UNCHANGED panicked

\* whether a line and its newline fit the scanner's buffer
fits(l) == l.size + 1 <= MaxScanTokenSize

\* scanner.Scan() returns a line that fits the buffer, then the shutdown
\* check.  What the line says is drawn when the line is handled.
readLoopScan ==
  /\ alive /\ readPc = "scan" /\ stdin = "open"
  /\ \E l \in Lines : fits(l)
  /\ IF shutdown
     THEN readPc' = "done" /\ wg' = wg - 1
     ELSE readPc' = "line" /\ UNCHANGED wg
  /\ UNCHANGED <<id, conn, backup, password, mu, output, shutdown, conns, tasks,
                 runPc, sigPc, writePc, stdin, panicked>>
  /\ UNCHANGED <<webhookVars, callVars, sendVars>>

\* scanner.Scan() fails with bufio.ErrTooLong on a line that fills the buffer
readLoopTooLong(l) ==
  /\ alive /\ readPc = "scan" /\ stdin = "open"
  /\ ~fits(l)
  /\ readLoopExit
  /\ UNCHANGED <<id, conn, backup, password, mu, output, conns, tasks,
                 runPc, sigPc, writePc, stdin>>
  /\ UNCHANGED <<webhookVars, callVars, sendVars>>

\* scanner.Scan() returns false at the end of stdin
readLoopEOF ==
  /\ alive /\ readPc = "scan" /\ stdin = "open"
  /\ stdin' = "closed"
  /\ readLoopExit
  /\ UNCHANGED <<id, conn, backup, password, mu, output, conns, tasks,
                 runPc, sigPc, writePc>>
  /\ UNCHANGED <<webhookVars, callVars, sendVars>>

\* readLoop: an empty line is skipped, an unparseable line is answered with
\* an "invalid command" error event
readLoopSkip(l) ==
  /\ alive /\ readPc = "line" /\ fits(l)
  /\ l.size = 0 \/ ~ParseCommand(l).ok
  /\ IF l.size = 0
     THEN UNCHANGED output
     ELSE output' \in emit(output, shutdown, EventError)
  /\ readPc' = "scan"
  /\ UNCHANGED <<id, conn, backup, password, mu, shutdown, wg, conns, tasks,
                 runPc, sigPc, writePc, stdin, panicked>>
  /\ UNCHANGED <<webhookVars, callVars, sendVars>>

\* a line that reaches processCommand
dispatched(l) ==
  /\ alive /\ readPc = "line" /\ fits(l)
  /\ l.size # 0 /\ ParseCommand(l).ok

\* processCommand: if err != nil { b.emit(bridge.NewErrorEvent(err)) }; the
\* queues it can leave behind when the handler returned e
processCommand(q, sd, e) == IF e = "nil" THEN {q} ELSE emit(q, sd, EventError)

(***************************************************************************)
(* handleConnect, in two steps under b.mu.                                 *)
(***************************************************************************)
\* handleConnect up to threema.Identify: lock, close the existing
\* connection, store the credentials, load the identity; a failure unlocks
\* and is reported by processCommand
handleConnect(l) ==
  /\ dispatched(l) /\ l.cmd = CmdConnect /\ mu = "free"
  /\ conns' = IF conn # 0 THEN Close(conns, conn) ELSE conns
  /\ conn' = 0
  /\ backup' = l.backup /\ password' = l.password
  /\ IF Identify(l.backup, l.password) = NoId
     THEN /\ output' \in processCommand(output, shutdown, "failed to load identity")
          /\ readPc' = "scan"
          /\ UNCHANGED <<id, mu>>
     ELSE /\ id' = Identify(l.backup, l.password)
          /\ mu' = "cmd"
          /\ readPc' = "connect"
          /\ UNCHANGED output
  /\ UNCHANGED <<shutdown, wg, tasks, runPc, sigPc, writePc, stdin, panicked>>
  /\ UNCHANGED <<webhookVars, callVars, sendVars>>

\* handleConnect from threema.Connect on: open the connection, emit
\* connected, unlock; a failure unlocks and is reported by processCommand
handleConnectDial(ok) ==
  /\ alive /\ readPc = "connect"
  /\ IF ok
     THEN /\ Len(conns) < MaxConns
          /\ conns' = Append(conns, "live")
          /\ conn' = Len(conns) + 1
          /\ output' \in emit(output, shutdown, EventConnected)
     ELSE /\ output' \in processCommand(output, shutdown, "failed to connect")
          /\ UNCHANGED <<conns, conn>>
  /\ mu' = "free"
  /\ readPc' = "scan"
  /\ UNCHANGED <<id, backup, password, shutdown, wg, tasks, runPc, sigPc, writePc,
                 stdin, panicked>>
  /\ UNCHANGED <<webhookVars, callVars, sendVars>>

(***************************************************************************)
(* handleSend, handleTrust, ping, unknown commands.  A handler and the     *)
(* report of its error are one step: the handlers write no shared state.   *)
(***************************************************************************)
\* b.conn.SendText on connection c: only a live connection can carry it
SendText(c) == IF conns[c] = "live" THEN {"ok", "fail"} ELSE {"fail"}

\* b.id.Trust: nil, "contact already exists" or another error
Trust == {"ok", "exists", "fail"}

\* handleSend gets as far as b.conn.SendText
reachesSendText(cmd, trusted) ==
  /\ conn # 0 /\ cmd.to # "" /\ cmd.text # ""
  /\ cmd.pubkey # "" => trusted # "fail"

\* handleSend: the error it returns, given what Trust and SendText answer
handleSendErr(cmd, trusted, sent) ==
  IF conn = 0 THEN "not connected"
  ELSE IF cmd.to = "" THEN "missing 'to' field"
  ELSE IF cmd.text = "" THEN "missing 'text' field"
  ELSE IF cmd.pubkey # "" /\ trusted = "fail" THEN "failed to trust recipient"
  ELSE IF sent = "fail" THEN "failed to send message"
  ELSE "nil"

\* handleSend under b.mu.RLock with the answers of Trust and SendText; sent
\* is "none" when SendText is not called
handleSendWith(l, trusted, sent) ==
  /\ dispatched(l) /\ l.cmd = CmdSend /\ mu = "free"
  /\ sent \in (IF reachesSendText(l, trusted) THEN SendText(conn) ELSE {"none"})
  /\ output' \in processCommand(output, shutdown, handleSendErr(l, trusted, sent))
  /\ readPc' = "scan"
  /\ UNCHANGED <<id, conn, backup, password, mu, shutdown, wg, conns, tasks,
                 runPc, sigPc, writePc, stdin, panicked>>
  /\ UNCHANGED <<webhookVars, callVars, sendVars>>

handleSend(l) ==
  \E trusted \in Trust : \E sent \in {"ok", "fail", "none"} : handleSendWith(l, trusted, sent)

\* handleTrust: the error it returns, given what Trust answers
handleTrustErr(cmd, trusted) ==
  IF id = NoId THEN "not connected"
  ELSE IF cmd.to = "" THEN "missing 'to' field (Threema ID)"
  ELSE IF cmd.pubkey = "" THEN "missing 'pubkey' field (base64 public key)"
  ELSE IF trusted = "fail" THEN "failed to trust contact"
  ELSE "nil"

\* handleTrust under b.mu.RLock with the answer of Trust
handleTrustWith(l, trusted) ==
  /\ dispatched(l) /\ l.cmd = CmdTrust /\ mu = "free"
  /\ output' \in processCommand(output, shutdown, handleTrustErr(l, trusted))
  /\ readPc' = "scan"
  /\ UNCHANGED <<id, conn, backup, password, mu, shutdown, wg, conns, tasks,
                 runPc, sigPc, writePc, stdin, panicked>>
  /\ UNCHANGED <<webhookVars, callVars, sendVars>>

handleTrust(l) == \E trusted \in Trust : handleTrustWith(l, trusted)

\* a ping that is refused like a send while there is no connection
handlePingNeedsConn(l) ==
  /\ dispatched(l) /\ l.cmd = CmdPing
  /\ IF conn = 0
     THEN output' \in processCommand(output, shutdown, "not connected")
     ELSE output' \in emit(output, shutdown, EventPong)
  /\ readPc' = "scan"
  /\ UNCHANGED <<id, conn, backup, password, mu, shutdown, wg, conns, tasks,
                 runPc, sigPc, writePc, stdin, panicked>>
  /\ UNCHANGED <<webhookVars, callVars, sendVars>>

\* processCommand, case bridge.CmdPing: b.emit(bridge.NewPongEvent())
handlePing(l) ==
  /\ dispatched(l) /\ l.cmd = CmdPing
  /\ output' \in emit(output, shutdown, EventPong)
  /\ readPc' = "scan"
  /\ UNCHANGED <<id, conn, backup, password, mu, shutdown, wg, conns, tasks,
                 runPc, sigPc, writePc, stdin, panicked>>
  /\ UNCHANGED <<webhookVars, callVars, sendVars>>

\* processCommand, default: unknown command
handleUnknown(l) ==
  /\ dispatched(l) /\ l.cmd \notin {CmdConnect, CmdSend, CmdTrust, CmdPing}
  /\ output' \in processCommand(output, shutdown, "unknown command")
  /\ readPc' = "scan"
  /\ UNCHANGED <<id, conn, backup, password, mu, shutdown, wg, conns, tasks,
                 runPc, sigPc, writePc, stdin, panicked>>
  /\ UNCHANGED <<webhookVars, callVars, sendVars>>

(***************************************************************************)
(* scheduleReconnect and its goroutine.                                    *)
(***************************************************************************)
\* a delay lookup that wraps around the table instead of holding its last entry
delayWraps(attempt) == delays[(attempt % Len(delays)) + 1]

\* delay := delays[min(attempt, len(delays)-1)]
delay(attempt) == delays[Min(attempt, Len(delays) - 1) + 1]

\* scheduleReconnect: b.wg.Add(1); go func() with attempt := 0
\* Bound on the environment: a further goroutine is scheduled only while a
\* slot is free and no goroutine has retried yet, and an attempt fails only
\* in a goroutine that runs alone (a goroutine that would fail next to
\* another one is not scheduled).
active == {i \in DOMAIN tasks : tasks[i] # NoTask}
canSchedule ==
  /\ \E i \in DOMAIN tasks : tasks[i] = NoTask
  /\ \A i \in active : tasks[i].attempt = 0
canFail == Cardinality(active) = 1
scheduleReconnect(ts) ==
  LET i == CHOOSE j \in DOMAIN tasks : ts[j] = NoTask /\ \A k \in 1..(j - 1) : ts[k] # NoTask
  IN  [ts EXCEPT ![i] = [pc |-> "check", attempt |-> 0, delay |-> 0, prev |-> 0]]

\* a loop that gives up after the last entry of the table
nextAttemptGivesUp(t) ==
  IF t.attempt + 1 >= Len(delays)
  THEN NoTask
  ELSE [t EXCEPT !.attempt = t.attempt + 1, !.pc = "check"]

\* attempt++ of the for statement, saturating at MaxAttempt
nextAttempt(t) == [t EXCEPT !.attempt = Min(t.attempt + 1, MaxAttempt), !.pc = "check"]

\* loop head: the non-blocking shutdown check, then the choice of the delay
reconnectCheck(i) ==
  /\ alive /\ i \in DOMAIN tasks /\ tasks[i].pc = "check"
  /\ IF shutdown
     THEN /\ tasks' = [tasks EXCEPT ![i] = NoTask]
          /\ wg' = wg - 1
     ELSE /\ tasks' = [tasks EXCEPT ![i].pc = "wait",
                                    ![i].prev = tasks[i].delay,
                                    ![i].delay = delay(tasks[i].attempt)]
          /\ UNCHANGED wg
  /\ UNCHANGED <<id, conn, backup, password, mu, output, shutdown, conns,
                 runPc, sigPc, readPc, writePc, stdin, panicked>>
  /\ UNCHANGED <<webhookVars, callVars, sendVars>>

\* select: case <-time.After(delay)
reconnectTimer(i) ==
  /\ alive /\ i \in DOMAIN tasks /\ tasks[i].pc = "wait"
  /\ tasks' = [tasks EXCEPT ![i].pc = "lock"]
  /\ UNCHANGED <<id, conn, backup, password, mu, output, shutdown, wg, conns,
                 runPc, sigPc, readPc, writePc, stdin, panicked>>
  /\ UNCHANGED <<webhookVars, callVars, sendVars>>

\* select: case <-b.shutdown: return
reconnectCancel(i) ==
  /\ alive /\ i \in DOMAIN tasks /\ tasks[i].pc = "wait"
  /\ shutdown
  /\ tasks' = [tasks EXCEPT ![i] = NoTask]
  /\ wg' = wg - 1
  /\ UNCHANGED <<id, conn, backup, password, mu, output, shutdown, conns,
                 runPc, sigPc, readPc, writePc, stdin, panicked>>
  /\ UNCHANGED <<webhookVars, callVars, sendVars>>

\* a reconnect attempt that enters its section without b.mu.Lock()
reconnectIdentifyUnlocked(i) ==
  /\ alive /\ i \in DOMAIN tasks /\ tasks[i].pc = "lock"
  /\ IF backup = "" \/ password = ""
     THEN /\ tasks' = [tasks EXCEPT ![i] = NoTask]
          /\ wg' = wg - 1
          /\ UNCHANGED <<id, mu>>
     ELSE IF Identify(backup, password) = NoId
          THEN /\ canFail
               /\ tasks' = [tasks EXCEPT ![i] = nextAttempt(tasks[i])]
               /\ UNCHANGED <<id, mu, wg>>
          ELSE /\ id' = Identify(backup, password)
               /\ mu' = "task"
               /\ tasks' = [tasks EXCEPT ![i].pc = "connect"]
               /\ UNCHANGED wg
  /\ UNCHANGED <<conn, backup, password, output, shutdown, conns,
                 runPc, sigPc, readPc, writePc, stdin, panicked>>
  /\ UNCHANGED <<webhookVars, callVars, sendVars>>

\* b.mu.Lock(); the credentials check; threema.Identify(b.backup, b.password)
reconnectIdentify(i) ==
  /\ alive /\ i \in DOMAIN tasks /\ tasks[i].pc = "lock"
  /\ mu = "free"
  /\ IF backup = "" \/ password = ""
     THEN /\ tasks' = [tasks EXCEPT ![i] = NoTask]
          /\ wg' = wg - 1
          /\ UNCHANGED <<id, mu>>
     ELSE IF Identify(backup, password) = NoId
          THEN /\ canFail
               /\ tasks' = [tasks EXCEPT ![i] = nextAttempt(tasks[i])]
               /\ UNCHANGED <<id, mu, wg>>
          ELSE /\ id' = Identify(backup, password)
               /\ mu' = "task"
               /\ tasks' = [tasks EXCEPT ![i].pc = "connect"]
               /\ UNCHANGED wg
  /\ UNCHANGED <<conn, backup, password, output, shutdown, conns,
                 runPc, sigPc, readPc, writePc, stdin, panicked>>
  /\ UNCHANGED <<webhookVars, callVars, sendVars>>

\* a reconnect step that announces the connection before looking at Connect's error
reconnectDialAnnouncesFailure(i, ok) ==
  /\ alive /\ i \in DOMAIN tasks /\ tasks[i].pc = "connect"
  /\ IF ok
     THEN /\ Len(conns) < MaxConns
          /\ conns' = Append(conns, "live")
          /\ conn' = Len(conns) + 1
          /\ tasks' = [tasks EXCEPT ![i].pc = "emit"]
          /\ UNCHANGED output
     ELSE /\ canFail
          /\ tasks' = [tasks EXCEPT ![i] = nextAttempt(tasks[i])]
          /\ output' \in emit(output, shutdown, EventConnected)
          /\ UNCHANGED <<conns, conn>>
  /\ mu' = "free"
  /\ UNCHANGED <<id, backup, password, shutdown, wg,
                 runPc, sigPc, readPc, writePc, stdin, panicked>>
  /\ UNCHANGED <<webhookVars, callVars, sendVars>>

\* threema.Connect(id, handler); b.conn = conn; b.mu.Unlock()
reconnectDial(i, ok) ==
  /\ alive /\ i \in DOMAIN tasks /\ tasks[i].pc = "connect"
  /\ IF ok
     THEN /\ Len(conns) < MaxConns
          /\ conns' = Append(conns, "live")
          /\ conn' = Len(conns) + 1
          /\ tasks' = [tasks EXCEPT ![i].pc = "emit"]
     ELSE /\ canFail
          /\ tasks' = [tasks EXCEPT ![i] = nextAttempt(tasks[i])]
          /\ UNCHANGED <<conns, conn>>
  /\ mu' = "free"
  /\ UNCHANGED <<id, backup, password, output, shutdown, wg,
                 runPc, sigPc, readPc, writePc, stdin, panicked>>
  /\ UNCHANGED <<webhookVars, callVars, sendVars>>

\* b.emit(bridge.NewConnectedEvent(id.Self())); return
reconnectEmit(i) ==
  /\ alive /\ i \in DOMAIN tasks /\ tasks[i].pc = "emit"
  /\ output' \in emit(output, shutdown, EventConnected)
  /\ tasks' = [tasks EXCEPT ![i] = NoTask]
  /\ wg' = wg - 1
  /\ UNCHANGED <<id, conn, backup, password, mu, shutdown, conns,
                 runPc, sigPc, readPc, writePc, stdin, panicked>>
  /\ UNCHANGED <<webhookVars, callVars, sendVars>>

(***************************************************************************)
(* createHandler: the callbacks of connection c.  Spam and Alert only log. *)
(***************************************************************************)
\* Message: b.emit(bridge.NewMessageEvent(...))
handlerMessage(c) ==
  /\ alive /\ c \in 1..Len(conns) /\ conns[c] = "live"
  /\ output' \in emit(output, shutdown, EventMessage)
  /\ UNCHANGED <<id, conn, backup, password, mu, shutdown, wg, conns, tasks,
                 runPc, sigPc, readPc, writePc, stdin, panicked>>
  /\ UNCHANGED <<webhookVars, callVars, sendVars>>

\* Error: b.emit(bridge.NewErrorEvent(...)); if reconnect { b.scheduleReconnect() }
handlerError(c, reconnect) ==
  /\ alive /\ c \in 1..Len(conns) /\ conns[c] = "live"
  /\ output' \in emit(output, shutdown, EventError)
  /\ IF reconnect
     THEN /\ canSchedule
          /\ tasks' = scheduleReconnect(tasks)
          /\ wg' = wg + 1
     ELSE UNCHANGED <<tasks, wg>>
  /\ UNCHANGED <<id, conn, backup, password, mu, shutdown, conns,
                 runPc, sigPc, readPc, writePc, stdin, panicked>>
  /\ UNCHANGED <<webhookVars, callVars, sendVars>>

\* Closed: b.scheduleReconnect(); raised when the transport drops the
\* connection, and possibly after the bridge closed it
handlerClosed(c) ==
  /\ alive /\ c \in 1..Len(conns) /\ conns[c] \in {"live", "closedLocal"}
  /\ canSchedule
  /\ conns' = [conns EXCEPT ![c] = "closed"]
  /\ tasks' = scheduleReconnect(tasks)
  /\ wg' = wg + 1
  /\ UNCHANGED <<id, conn, backup, password, mu, output, shutdown,
                 runPc, sigPc, readPc, writePc, stdin, panicked>>
  /\ UNCHANGED <<webhookVars, callVars, sendVars>>

(***************************************************************************)
(* writeLoop.                                                              *)
(***************************************************************************)
\* select: case event := <-b.output: encoder.Encode(event)
writeLoopEncode ==
  /\ alive /\ writePc = "loop" /\ output # <<>>
  /\ output' = Tail(output)
  /\ UNCHANGED <<id, conn, backup, password, mu, shutdown, wg, conns, tasks,
                 runPc, sigPc, readPc, writePc, stdin, panicked>>
  /\ UNCHANGED <<webhookVars, callVars, sendVars>>

\* a write loop that returns on shutdown without draining the queue
writeLoopShutdownNoDrain ==
  /\ alive /\ writePc = "loop" /\ shutdown
  /\ writePc' = "done" /\ wg' = wg - 1
  /\ UNCHANGED <<id, conn, backup, password, mu, output, shutdown, conns, tasks,
                 runPc, sigPc, readPc, stdin, panicked>>
  /\ UNCHANGED <<webhookVars, callVars, sendVars>>

\* select: case <-b.shutdown: start draining
writeLoopShutdown ==
  /\ alive /\ writePc = "loop" /\ shutdown
  /\ writePc' = "drain"
  /\ UNCHANGED <<id, conn, backup, password, mu, output, shutdown, wg, conns, tasks,
                 runPc, sigPc, readPc, stdin, panicked>>
  /\ UNCHANGED <<webhookVars, callVars, sendVars>>

\* the drain loop: encode what is queued, return when the queue is empty
writeLoopDrain ==
  /\ alive /\ writePc = "drain"
  /\ IF output # <<>>
     THEN output' = Tail(output) /\ UNCHANGED <<writePc, wg>>
     ELSE writePc' = "done" /\ wg' = wg - 1 /\ UNCHANGED output
  /\ UNCHANGED <<id, conn, backup, password, mu, shutdown, conns, tasks,
                 runPc, sigPc, readPc, stdin, panicked>>
  /\ UNCHANGED <<webhookVars, callVars, sendVars>>

(***************************************************************************)
(* Part 2: the plugin's codec, MAC and webhook pipeline.  Strings are      *)
(* sequences of characters, byte arrays are sequences of 0..255.           *)
(***************************************************************************)
\* the characters that occur: hex digits, the upper-case hex letters, the
\* gateway prefix "*", a letter that is no hex digit, and white space
Alphabet ==
  <<"0", "1", "2", "3", "4", "5", "6", "7", "8", "9", "a", "b", "c", "d", "e", "f",
    "A", "B", "C", "D", "E", "F", "*", "g", " ">>

\* charCodeAt: a number for every character, different for different characters
Code(c) == CHOOSE i \in 1..Len(Alphabet) : Alphabet[i] = c

\* /^[0-9a-fA-F]+$/ on one character
IsHex(c) == Code(c) <= 22

\* parseInt(c, 16) of a hex digit
HexVal(c) == IF Code(c) <= 16 THEN Code(c) - 1 ELSE Code(c) - 7

\* String.prototype.toLowerCase and toUpperCase
toLowerCase(s) ==
  [i \in 1..Len(s) |-> IF Code(s[i]) \in 17..22 THEN Alphabet[Code(s[i]) - 6] ELSE s[i]]
toUpperCase(s) ==
  [i \in 1..Len(s) |-> IF Code(s[i]) \in 11..16 THEN Alphabet[Code(s[i]) + 6] ELSE s[i]]

\* hexToBytes: ok is FALSE where the code throws
hexToBytes(hex) ==
  LET cleanHex == SelectSeq(hex, LAMBDA c : c # " ")
  IN  IF Len(cleanHex) = 0 THEN [ok |-> TRUE, bytes |-> <<>>]
      ELSE IF Len(cleanHex) % 2 # 0 THEN [ok |-> FALSE, bytes |-> <<>>]
      ELSE IF \E i \in 1..Len(cleanHex) : ~IsHex(cleanHex[i]) THEN [ok |-> FALSE, bytes |-> <<>>]
      ELSE [ok |-> TRUE,
            bytes |-> [i \in 1..(Len(cleanHex) \div 2) |->
                         16 * HexVal(cleanHex[2 * i - 1]) + HexVal(cleanHex[2 * i])]]

\* bytesToHex: two lower-case digits per byte
bytesToHex(bytes) ==
  [i \in 1..(2 * Len(bytes)) |->
     LET b == bytes[(i + 1) \div 2]
     IN  Alphabet[(IF i % 2 = 1 THEN b \div 16 ELSE b % 16) + 1]]

\* MessageLimits.PADDING_BLOCK_SIZE, MIN_PADDED_SIZE and MAX_PADDING of padMessage
PADDING_BLOCK_SIZE == 256
MIN_PADDED_SIZE == 32
MAX_PADDING == 255

\* MessageType.Text
MessageTypeText == 1

\* a padMessage without the cap: a full block of 256 bytes, each holding
\* 256 as a Uint8Array stores it
padMessageFullBlock(message) ==
  LET paddingLength ==
        IF Len(message) < MIN_PADDED_SIZE
        THEN MIN_PADDED_SIZE - Len(message)
        ELSE PADDING_BLOCK_SIZE - (Len(message) % PADDING_BLOCK_SIZE)
  IN  message \o [i \in 1..paddingLength |-> paddingLength % 256]

\* padMessage
padMessage(message) ==
  LET blockPadding == PADDING_BLOCK_SIZE - (Len(message) % PADDING_BLOCK_SIZE)
      paddingLength ==
        Min(IF Len(message) < MIN_PADDED_SIZE
            THEN MIN_PADDED_SIZE - Len(message)
            ELSE IF blockPadding = 0 THEN PADDING_BLOCK_SIZE ELSE blockPadding,
            MAX_PADDING)
  IN  message \o [i \in 1..paddingLength |-> paddingLength]

\* an unpadMessage that trusts the last byte and skips the loop over the trailer
unpadMessageLastByteOnly(padded) ==
  IF Len(padded) = 0 THEN [ok |-> FALSE, bytes |-> <<>>]
  ELSE LET paddingLength == padded[Len(padded)]
       IN  IF paddingLength = 0 \/ paddingLength > Len(padded)
           THEN [ok |-> FALSE, bytes |-> <<>>]
           ELSE [ok |-> TRUE, bytes |-> SubSeq(padded, 1, Len(padded) - paddingLength)]

\* unpadMessage: ok is FALSE where the code throws
unpadMessage(padded) ==
  IF Len(padded) = 0 THEN [ok |-> FALSE, bytes |-> <<>>]
  ELSE LET paddingLength == padded[Len(padded)]
       IN  IF paddingLength = 0 \/ paddingLength > Len(padded)
           THEN [ok |-> FALSE, bytes |-> <<>>]
           ELSE IF \E i \in (Len(padded) - paddingLength + 1)..Len(padded) :
                     padded[i] # paddingLength
           THEN [ok |-> FALSE, bytes |-> <<>>]
           ELSE [ok |-> TRUE, bytes |-> SubSeq(padded, 1, Len(padded) - paddingLength)]

(***************************************************************************)
(* TextEncoder and TextDecoder.  A text is a sequence of code points.      *)
(***************************************************************************)
\* MessageLimits.TEXT_MAX_BYTES
TEXT_MAX_BYTES == 3500

\* U+FEFF, which TextDecoder drops at the start, and U+FFFD, which it
\* gives for bytes that are no UTF-8
ByteOrderMark == 65279
ReplacementChar == 65533

\* the UTF-8 bytes of one code point
utf8(cp) ==
  IF cp < 128 THEN <<cp>>
  ELSE IF cp < 2048 THEN <<192 + (cp \div 64), 128 + (cp % 64)>>
  ELSE IF cp < 65536 THEN <<224 + (cp \div 4096), 128 + ((cp \div 64) % 64), 128 + (cp % 64)>>
  ELSE <<240 + (cp \div 262144), 128 + ((cp \div 4096) % 64), 128 + ((cp \div 64) % 64),
         128 + (cp % 64)>>

\* new TextEncoder().encode(text)
RECURSIVE TextEncodeRange(_, _, _)
TextEncodeRange(text, lo, hi) ==
  IF lo > hi THEN <<>>
  ELSE IF lo = hi THEN utf8(text[lo])
  ELSE TextEncodeRange(text, lo, (lo + hi) \div 2)
         \o TextEncodeRange(text, ((lo + hi) \div 2) + 1, hi)
TextEncode(text) == TextEncodeRange(text, 1, Len(text))

\* new TextDecoder().decode(bytes): every well-formed sequence gives its code
\* point, every other byte U+FFFD, and a byte order mark at the start is dropped
TextDecode(bytes) ==
  LET n == Len(bytes)
      isCont(b) == b \in 128..191
      need(b) == IF b < 128 THEN 0 ELSE IF b \in 194..223 THEN 1
                 ELSE IF b \in 224..239 THEN 2 ELSE IF b \in 240..244 THEN 3 ELSE -1
      validAt(i) == /\ need(bytes[i]) >= 0 /\ i + need(bytes[i]) <= n
                    /\ \A j \in 1..need(bytes[i]) : isCont(bytes[i + j])
      consumed(j) == /\ isCont(bytes[j])
                     /\ \E d \in 1..3 : j - d >= 1 /\ need(bytes[j - d]) >= d /\ validAt(j - d)
      low(i, k) == bytes[i + k] % 64
      point(i) ==
        CASE need(bytes[i]) = 0 -> bytes[i]
          [] need(bytes[i]) = 1 -> (bytes[i] % 32) * 64 + low(i, 1)
          [] need(bytes[i]) = 2 -> (bytes[i] % 16) * 4096 + low(i, 1) * 64 + low(i, 2)
          [] OTHER -> (bytes[i] % 8) * 262144 + low(i, 1) * 4096 + low(i, 2) * 64 + low(i, 3)
      at == [i \in 1..n |-> IF consumed(i) THEN -1
                            ELSE IF validAt(i) THEN point(i) ELSE ReplacementChar]
      points == SelectSeq(at, LAMBDA c : c # -1)
  IN  IF points # <<>> /\ points[1] = ByteOrderMark THEN Tail(points) ELSE points

(***************************************************************************)
(* tweetnacl and crypto.subtle are outside the repository.  The box is a   *)
(* Diffie-Hellman key agreement with a masked and authenticated message,   *)
(* the HMAC a keyed hash of the byte string; both are as wide as the model *)
(* needs, not as the libraries make them.                                  *)
(***************************************************************************)
\* nonce and key lengths nacl.box checks
NonceBytes == 24
KeyBytes == 32

\* the sum of bytes[lo..hi], and of all the bytes
RECURSIVE SumRange(_, _, _)
SumRange(bytes, lo, hi) ==
  IF lo > hi THEN 0
  ELSE IF lo = hi THEN bytes[lo]
  ELSE SumRange(bytes, lo, (lo + hi) \div 2) + SumRange(bytes, (lo + hi) \div 2 + 1, hi)
Sum(bytes) == SumRange(bytes, 1, Len(bytes))

RECURSIVE ModPow(_, _)
ModPow(b, e) == IF e = 0 THEN 1 ELSE (b * ModPow(b, e - 1)) % 251

\* a key of KeyBytes bytes, a nonce of NonceBytes bytes
Rep(n, b) == [i \in 1..n |-> b]

\* nacl.box.keyPair.fromSecretKey(secretKey).publicKey
getPublicKeyFromSecretKey(secretKey) == Rep(KeyBytes, ModPow(6, secretKey[1]))

\* the key both sides of a box agree on
naclBoxBefore(publicKey, secretKey) == ModPow(publicKey[1], secretKey[1])

\* nacl.box(msg, nonce, publicKey, secretKey)
naclBox(msg, nonce, publicKey, secretKey) ==
  LET k == naclBoxBefore(publicKey, secretKey)
  IN  <<(k + Sum(nonce) + Sum(msg)) % 256>> \o
        [i \in 1..Len(msg) |-> (msg[i] + k + nonce[1]) % 256]

\* nacl.box.open(box, nonce, publicKey, secretKey): "throws" on a nonce or
\* key of the wrong length, "null" on a box that does not authenticate
naclBoxOpen(box, nonce, publicKey, secretKey) ==
  IF Len(nonce) # NonceBytes \/ Len(publicKey) # KeyBytes \/ Len(secretKey) # KeyBytes
  THEN [st |-> "throws", msg |-> <<>>]
  ELSE IF Len(box) < 1 THEN [st |-> "null", msg |-> <<>>]
  ELSE LET k == naclBoxBefore(publicKey, secretKey)
           msg == [i \in 1..(Len(box) - 1) |-> (box[i + 1] + 512 - k - nonce[1]) % 256]
       IN  IF box[1] = (k + Sum(nonce) + Sum(msg)) % 256
           THEN [st |-> "ok", msg |-> msg]
           ELSE [st |-> "null", msg |-> <<>>]

\* crypto.subtle.sign('HMAC', key, data)
RECURSIVE Pow31(_)
Pow31(n) ==
  IF n = 0 THEN 1
  ELSE IF n % 2 = 0 THEN (Pow31(n \div 2) * Pow31(n \div 2)) % 32749
  ELSE (31 * Pow31(n - 1)) % 32749
RECURSIVE Poly(_, _, _)
Poly(s, lo, hi) ==
  IF lo > hi THEN 0
  ELSE IF lo = hi THEN Code(s[lo])
  ELSE (Poly(s, lo, (lo + hi) \div 2) * Pow31(hi - (lo + hi) \div 2)
        + Poly(s, (lo + hi) \div 2 + 1, hi)) % 32749
hmacSha256(key, data) ==
  LET m == key \o <<" ">> \o data
      h == (7 * Pow31(Len(m)) + Poly(m, 1, Len(m))) % 32749
  IN  <<h \div 256, h % 256>>

\* computeWebhookMac
computeWebhookMac(apiSecret, from, to, messageId, date, nonce, box) ==
  bytesToHex(hmacSha256(apiSecret, from \o to \o messageId \o date \o nonce \o box))

\* a verifyWebhookMac that compares the provided MAC as it came
verifyWebhookMacCaseSensitive(apiSecret, from, to, messageId, date, nonce, box, mac) ==
  mac = computeWebhookMac(apiSecret, from, to, messageId, date, nonce, box)

\* verifyWebhookMac: diff stays 0 exactly when every character agrees
verifyWebhookMac(apiSecret, from, to, messageId, date, nonce, box, mac) ==
  LET expectedMac == computeWebhookMac(apiSecret, from, to, messageId, date, nonce, box)
      normalizedMac == toLowerCase(mac)
  IN  IF Len(expectedMac) # Len(normalizedMac)
      THEN FALSE
      ELSE \A i \in 1..Len(expectedMac) : Code(expectedMac[i]) = Code(normalizedMac[i])

\* decryptMessage: "null" where the code returns null, "throws" where
\* nacl.box.open throws; the text of a text message is its bytes
decryptMessage(box, nonce, senderPublicKey, recipientSecretKey) ==
  LET decrypted == naclBoxOpen(box, nonce, senderPublicKey, recipientSecretKey)
      unpadded == unpadMessage(decrypted.msg)
      none == [st |-> "null", type |-> 0, raw |-> <<>>, text |-> <<>>]
  IN  IF decrypted.st = "throws" THEN [none EXCEPT !.st = "throws"]
      ELSE IF decrypted.st = "null" THEN none
      ELSE IF ~unpadded.ok THEN none
      ELSE IF Len(unpadded.bytes) < 1 THEN none
      ELSE [st |-> "ok", type |-> unpadded.bytes[1], raw |-> Tail(unpadded.bytes),
            text |-> IF unpadded.bytes[1] = MessageTypeText
                     THEN TextDecode(Tail(unpadded.bytes)) ELSE <<>>]

\* an encryptTextMessage that measures the text in characters
encryptTextMessageCountsChars(text, recipientPublicKey, senderSecretKey, nonce) ==
  IF Len(text) > TEXT_MAX_BYTES
  THEN [st |-> "throws", random |-> 0, nonce |-> <<>>, box |-> <<>>]
  ELSE [st |-> "ok", random |-> 1, nonce |-> nonce,
        box |-> naclBox(padMessage(<<MessageTypeText>> \o TextEncode(text)), nonce,
                        recipientPublicKey, senderSecretKey)]

\* encryptTextMessage; nonce is what generateNonce gives when it is called,
\* random counts the calls of nacl.randomBytes
encryptTextMessage(text, recipientPublicKey, senderSecretKey, nonce) ==
  LET textBytes == TextEncode(text)
      messageWithType == <<MessageTypeText>> \o textBytes
      paddedMessage == padMessage(messageWithType)
  IN  IF Len(textBytes) > TEXT_MAX_BYTES
      THEN [st |-> "throws", random |-> 0, nonce |-> <<>>, box |-> <<>>]
      ELSE [st |-> "ok", random |-> 1, nonce |-> nonce,
            box |-> naclBox(paddedMessage, nonce, recipientPublicKey, senderSecretKey)]

(***************************************************************************)
(* The webhook handler of receive.ts.                                      *)
(***************************************************************************)
\* ctx.account: the gateway identity, its API secret and its private key
account ==
  [id |-> <<"*", "A", "C", "E">>, secret |-> <<"5", "e", "c">>, privateKey |-> Rep(KeyBytes, 5)]

\* the senders known to the directory and their secret keys
SenderA == <<"A", "B", "C", "D">>
SenderB == <<"F", "E", "E", "D">>
SenderC == <<"C", "A", "F", "E">>
secretKeyOf(senderId) == Rep(KeyBytes, IF toUpperCase(senderId) = SenderA THEN 3 ELSE 4)

\* the callback the gateway posts for a text of sender from: the parsed body
Callback(from, text, nonce) ==
  LET box == naclBox(padMessage(<<MessageTypeText>> \o text), nonce,
                     getPublicKeyFromSecretKey(account.privateKey), secretKeyOf(from))
      b == [from |-> from, to |-> account.id, messageId |-> <<"0", "1">>,
            date |-> <<"1", "7">>, nonce |-> bytesToHex(nonce), box |-> bytesToHex(box)]
  IN  [from |-> b.from, to |-> b.to, messageId |-> b.messageId, date |-> b.date,
       nonce |-> b.nonce, box |-> b.box,
       mac |-> computeWebhookMac(account.secret, b.from, b.to, b.messageId, b.date,
                                 b.nonce, b.box)]

\* a body with field f replaced and the MAC computed over the result
Resigned(b, f, v) ==
  LET c == [b EXCEPT ![f] = v]
  IN  [c EXCEPT !.mac = computeWebhookMac(account.secret, c.from, c.to, c.messageId,
                                          c.date, c.nonce, c.box)]

GoodBody == Callback(SenderA, <<104, 105>>, Rep(NonceBytes, 9))

\* the bodies posted to the webhook; a request holds its body by its place here
Bodies ==
  << GoodBody,
     Callback(SenderB, <<111, 107>>, Rep(NonceBytes, 8)),
     [GoodBody EXCEPT !.mac = toUpperCase(GoodBody.mac)],
     [GoodBody EXCEPT !.to = <<>>],
     [GoodBody EXCEPT !.mac = <<"0", "0", "0", "0">>],
     [GoodBody EXCEPT !.mac = SubSeq(GoodBody.mac, 1, 2)],
     Resigned(GoodBody, "box", <<"0", "0", "f", "f">>),
     Resigned(GoodBody, "nonce", <<"g", "g">>),
     Callback(toLowerCase(SenderA), <<104, 105>>, Rep(NonceBytes, 9)),
     Callback(SenderC, <<111, 107>>, Rep(NonceBytes, 8)) >>

\* what getPublicKey answers for senderId: 404, a thrown error, the
\* sender's key in hex, or text that is no hex
LookupAnswers(senderId) ==
  { [st |-> "null", hex |-> <<>>], [st |-> "throws", hex |-> <<>>],
    [st |-> "ok", hex |-> bytesToHex(getPublicKeyFromSecretKey(secretKeyOf(senderId)))],
    [st |-> "ok", hex |-> <<"g", "g">>] }

\* a request that has not arrived
NoReq ==
  [pc |-> "none", method |-> "", body |-> 0,
   lookups |-> 0, decrypts |-> 0, delivered |-> <<>>, status |-> 0]

\* the parsed body of request q
bodyOf(q) == Bodies[q.body]

\* const required = ['from', 'to', 'messageId', 'date', 'nonce', 'box', 'mac']
required == {"from", "to", "messageId", "date", "nonce", "box", "mac"}

\* validatePayload: FALSE where it throws
validatePayload(body) == \A field \in required : body[field] # <<>>

\* Map.has, Map.get
cacheHas(cache, key) == \E i \in 1..Len(cache) : cache[i].key = key
cacheGet(cache, key) == cache[CHOOSE i \in 1..Len(cache) : cache[i].key = key].value

\* Map.set: a present key keeps its place, a new key goes last
cacheSet(cache, key, value) ==
  IF cacheHas(cache, key)
  THEN [i \in 1..Len(cache) |-> IF cache[i].key = key THEN [key |-> key, value |-> value]
                                                       ELSE cache[i]]
  ELSE Append(cache, [key |-> key, value |-> value])

\* an addToSenderCache that deletes only above the capacity
addToSenderCacheAboveCapacity(cache, key, value) ==
  cacheSet(IF Len(cache) > MAX_CACHE_SIZE /\ cache # <<>> THEN Tail(cache) ELSE cache,
           key, value)

\* addToSenderCache
addToSenderCache(cache, key, value) ==
  cacheSet(IF Len(cache) >= MAX_CACHE_SIZE /\ cache # <<>> THEN Tail(cache) ELSE cache,
           key, value)

\* a handler whose catch block answers 500
respondFailureAs500(q) ==
  [q EXCEPT !.pc = "done", !.status = IF q.pc = "deliver" THEN 200 ELSE 500]

\* res.writeHead(200); res.end('OK'), on success and in the catch block
respond(q) == [q EXCEPT !.pc = "done", !.status = 200]

\* createWebhookHandler: a request arrives; anything but POST is answered 405
createWebhookHandler(r, method, body) ==
  /\ r \in 1..MaxReqs /\ reqs[r].pc = "none"
  /\ \A k \in 1..(r - 1) : reqs[k].pc # "none"
  /\ reqs' = [reqs EXCEPT ![r] =
                IF method # "POST"
                THEN [NoReq EXCEPT !.pc = "done", !.method = method, !.status = 405]
                ELSE [NoReq EXCEPT !.pc = "body", !.method = method, !.body = body]]
  /\ UNCHANGED senderPublicKeyCache
  /\ UNCHANGED <<bridgeVars, callVars, sendVars>>

\* await parseUrlEncodedBody(req), then validatePayload(body) and the call
\* of verifyWebhookMac; the request stream may fail
parseUrlEncodedBody(r, ok) ==
  /\ r \in 1..MaxReqs /\ reqs[r].pc = "body"
  /\ reqs' = [reqs EXCEPT ![r] =
                IF ok /\ validatePayload(bodyOf(reqs[r]))
                THEN [reqs[r] EXCEPT !.pc = "mac"]
                ELSE respond(reqs[r])]
  /\ UNCHANGED senderPublicKeyCache
  /\ UNCHANGED <<bridgeVars, callVars, sendVars>>

\* processWebhook from the decoding of nonce and box on, with the sender's key
processWebhookDecrypt(q, senderPublicKey) ==
  LET nonce == hexToBytes(bodyOf(q).nonce)
      box == hexToBytes(bodyOf(q).box)
      decrypted == decryptMessage(box.bytes, nonce.bytes, senderPublicKey, account.privateKey)
  IN  IF ~nonce.ok \/ ~box.ok THEN respond(q)
      ELSE IF decrypted.st # "ok" THEN [respond(q) EXCEPT !.decrypts = q.decrypts + 1]
      ELSE [q EXCEPT !.decrypts = q.decrypts + 1,
                     !.delivered = Append(q.delivered,
                                          [from |-> bodyOf(q).from, messageId |-> bodyOf(q).messageId,
                                           type |-> decrypted.type, raw |-> decrypted.raw]),
                     !.pc = "deliver"]

\* a pipeline that asks for the sender's key before it looks at the MAC
processWebhookKeyFirst(r) ==
  /\ r \in 1..MaxReqs /\ reqs[r].pc = "mac"
  /\ LET q == reqs[r]
         cacheKey == toUpperCase(bodyOf(q).from)
     IN  IF cacheHas(senderPublicKeyCache, cacheKey)
         THEN reqs' = [reqs EXCEPT ![r] =
                         processWebhookDecrypt(q, cacheGet(senderPublicKeyCache, cacheKey))]
         ELSE reqs' = [reqs EXCEPT ![r] = [q EXCEPT !.lookups = q.lookups + 1, !.pc = "lookup"]]
  /\ UNCHANGED senderPublicKeyCache
  /\ UNCHANGED <<bridgeVars, callVars, sendVars>>

\* processWebhook after verifyWebhookMac resolved: the MAC check, then
\* getSenderPublicKey up to the cache hit or the call of getPublicKey
processWebhook(r) ==
  /\ r \in 1..MaxReqs /\ reqs[r].pc = "mac"
  /\ LET q == reqs[r]
         b == bodyOf(q)
         macValid == verifyWebhookMac(account.secret, b.from, b.to, b.messageId, b.date,
                                      b.nonce, b.box, b.mac)
         cacheKey == toUpperCase(b.from)
     IN  IF ~macValid
         THEN reqs' = [reqs EXCEPT ![r] = respond(q)]
         ELSE IF cacheHas(senderPublicKeyCache, cacheKey)
         THEN reqs' = [reqs EXCEPT ![r] =
                         processWebhookDecrypt(q, cacheGet(senderPublicKeyCache, cacheKey))]
         ELSE reqs' = [reqs EXCEPT ![r] = [q EXCEPT !.lookups = q.lookups + 1, !.pc = "lookup"]]
  /\ UNCHANGED senderPublicKeyCache
  /\ UNCHANGED <<bridgeVars, callVars, sendVars>>

\* getSenderPublicKey after getPublicKey answered: the key is decoded and
\* cached, and processWebhook goes on to decrypt
getSenderPublicKey(r, answer) ==
  /\ r \in 1..MaxReqs /\ reqs[r].pc = "lookup"
  /\ LET q == reqs[r]
         cacheKey == toUpperCase(bodyOf(q).from)
         pubKey == hexToBytes(answer.hex)
     IN  IF answer.st # "ok" \/ answer.hex = <<>> \/ ~pubKey.ok
         THEN /\ reqs' = [reqs EXCEPT ![r] = respond(q)]
              /\ UNCHANGED senderPublicKeyCache
         ELSE /\ senderPublicKeyCache' =
                   addToSenderCache(senderPublicKeyCache, cacheKey, pubKey.bytes)
              /\ reqs' = [reqs EXCEPT ![r] = processWebhookDecrypt(q, pubKey.bytes)]
  /\ UNCHANGED <<bridgeVars, callVars, sendVars>>

\* await onMessage(message) settles, resolved or rejected
onMessage(r, ok) ==
  /\ r \in 1..MaxReqs /\ reqs[r].pc = "deliver"
  /\ reqs' = [reqs EXCEPT ![r] = respond(reqs[r])]
  /\ UNCHANGED senderPublicKeyCache
  /\ UNCHANGED <<bridgeVars, callVars, sendVars>>

\* clearSenderKeyCache
clearSenderKeyCache ==
  /\ senderPublicKeyCache' = <<>>
  /\ UNCHANGED reqs
  /\ UNCHANGED <<bridgeVars, callVars, sendVars>>

\* evictSenderFromCache
evictSenderFromCache(senderId) ==
  /\ senderPublicKeyCache' =
       SelectSeq(senderPublicKeyCache, LAMBDA e : e.key # toUpperCase(senderId))
  /\ UNCHANGED reqs
  /\ UNCHANGED <<bridgeVars, callVars, sendVars>>

webhook ==
  \/ \E r \in 1..MaxReqs : \E body \in 1..Len(Bodies) : createWebhookHandler(r, "POST", body)
  \/ \E r \in 1..MaxReqs : createWebhookHandler(r, "GET", 1)
  \/ \E r \in 1..MaxReqs : \E ok \in BOOLEAN : parseUrlEncodedBody(r, ok)
  \/ \E r \in 1..MaxReqs : processWebhook(r)
  \/ \E r \in {k \in 1..MaxReqs : reqs[k].pc = "lookup"} :
       \E answer \in LookupAnswers(bodyOf(reqs[r]).from) : getSenderPublicKey(r, answer)
  \/ \E r \in 1..MaxReqs : \E ok \in BOOLEAN : onMessage(r, ok)
  \/ clearSenderKeyCache
  \/ \E senderId \in {SenderA, SenderB} : evictSenderFromCache(senderId)

(***************************************************************************)
(* The outbound path: sendText of index.ts and the senders of send.ts.     *)
(***************************************************************************)
\* a ThreemaConfig; an absent field is the empty string
ThreemaConfig(apiId, apiSecret, privateKey, mode) ==
  [apiId |-> apiId, apiSecret |-> apiSecret, privateKey |-> privateKey, mode |-> mode]

NoThreemaConfig == ThreemaConfig(<<>>, <<>>, <<>>, "")
E2EConfig == ThreemaConfig(account.id, account.secret, bytesToHex(account.privateKey), "e2e")
BasicConfig == ThreemaConfig(account.id, account.secret, <<>>, "basic")

\* an OpenClawConfig: channels.threema is there or not, its own fields, and
\* its accounts object as entries in insertion order
OpenClawConfig(threema, direct, accounts) ==
  [threema |-> threema, direct |-> direct, accounts |-> accounts]

\* the configurations sendText is called with
Configs ==
  { OpenClawConfig(FALSE, NoThreemaConfig, <<>>),
    OpenClawConfig(TRUE, E2EConfig, <<>>),
    OpenClawConfig(TRUE, BasicConfig, <<>>),
    OpenClawConfig(TRUE, [E2EConfig EXCEPT !.mode = ""], <<>>),
    OpenClawConfig(TRUE, [E2EConfig EXCEPT !.privateKey = <<"0", "5">>], <<>>),
    OpenClawConfig(TRUE, [BasicConfig EXCEPT !.apiSecret = <<>>], <<>>),
    OpenClawConfig(TRUE, NoThreemaConfig,
                   << [name |-> "work", config |-> BasicConfig],
                      [name |-> "default", config |-> E2EConfig] >>) }

AccountIds == {"", "work", "other"}

\* accounts[id]: the configuration under that name, NoThreemaConfig for undefined
accountNamed(accounts, name) ==
  IF \E i \in 1..Len(accounts) : accounts[i].name = name
  THEN accounts[CHOOSE i \in 1..Len(accounts) : accounts[i].name = name].config
  ELSE NoThreemaConfig

\* resolveAccount: st is "null", "throws" or "ok"
resolveAccount(cfg, accountId) ==
  LET threemaConfig == cfg
      hasNamed == accountId # "" /\ accountNamed(threemaConfig.accounts, accountId) # NoThreemaConfig
      byDefault == accountNamed(threemaConfig.accounts,
                                IF accountId # "" THEN accountId ELSE "default")
      config ==
        IF hasNamed THEN accountNamed(threemaConfig.accounts, accountId)
        ELSE IF threemaConfig.direct.apiId # <<>> THEN threemaConfig.direct
        ELSE IF byDefault # NoThreemaConfig THEN byDefault
        ELSE IF threemaConfig.accounts # <<>> THEN threemaConfig.accounts[1].config
        ELSE NoThreemaConfig
      privateKey == hexToBytes(config.privateKey)
      none == [id |-> <<>>, secret |-> <<>>, privateKey |-> <<>>, mode |-> ""]
  IN  IF ~threemaConfig.threema THEN [st |-> "null", account |-> none]
      ELSE IF config = NoThreemaConfig \/ config.apiId = <<>> \/ config.apiSecret = <<>>
      THEN [st |-> "null", account |-> none]
      ELSE IF config.privateKey # <<>> /\ (~privateKey.ok \/ Len(privateKey.bytes) # KeyBytes)
      THEN [st |-> "throws", account |-> none]
      ELSE [st |-> "ok",
            account |-> [id |-> config.apiId, secret |-> config.apiSecret,
                         privateKey |-> IF config.privateKey # <<>> THEN privateKey.bytes
                                        ELSE Rep(KeyBytes, 0),
                         mode |-> IF config.mode # "" THEN config.mode ELSE "e2e"]]

\* /^[A-Z0-9*]{8}$/i
ThreemaIdLength == 8
isValidThreemaId(tid) ==
  Len(tid) = ThreemaIdLength /\ \A i \in 1..Len(tid) : tid[i] # " "

\* normalizeThreemaId
normalizeThreemaId(tid) == toUpperCase(tid)

\* resolveTarget(to) without an allowlist, as sendText calls it
resolveTarget(to) ==
  IF to = <<>> THEN [ok |-> FALSE, to |-> <<>>, error |-> "No recipient specified"]
  ELSE IF ~isValidThreemaId(normalizeThreemaId(to))
  THEN [ok |-> FALSE, to |-> <<>>, error |-> "Invalid Threema ID"]
  ELSE [ok |-> TRUE, to |-> normalizeThreemaId(to), error |-> ""]

\* the recipients: none, one identity in both cases, a second and a third
\* one, and two strings that are no Threema ID
RecipientA == <<"A", "B", "C", "D", "E", "F", "0", "1">>
RecipientB == <<"*", "F", "E", "E", "D", "1", "2", "3">>
RecipientC == <<"C", "A", "F", "E", "0", "0", "0", "7">>
Recipients ==
  { <<>>, RecipientA, toLowerCase(RecipientA), RecipientB, RecipientC, <<"A", "B", "C">>,
    <<"A", "B", "C", " ", "E", "F", "0", "1">> }

\* the texts sent, held in a call by their place here: short, at the limit,
\* and one byte above it (in bytes, not in characters)
SendTexts ==
  << <<104, 105>>, Rep(TEXT_MAX_BYTES, 104), Rep(TEXT_MAX_BYTES \div 2, 233) \o <<104>> >>

\* the function f as a table: its values are computed once, not at every use
Tabulated(f) == IF f = f THEN f ELSE f

\* the UTF-8 length of each of them
sendTextBytes == Tabulated([t \in 1..Len(SendTexts) |-> Len(TextEncode(SendTexts[t]))])

\* resolveAccount and resolveTarget on each of the arguments above
resolvedAccount ==
  Tabulated([cfg \in Configs |-> [accountId \in AccountIds |-> resolveAccount(cfg, accountId)]])
resolvedTarget == Tabulated([to \in Recipients |-> resolveTarget(to)])

\* what getPublicKey answers to a cached send: 404, a thrown error, the
\* recipient's key in hex, or text that is no hex
SendLookupAnswers(recipientId) == LookupAnswers(recipientId)

\* a sendText that was not called
NoSend ==
  [pc |-> "none", account |-> [id |-> <<>>, secret |-> <<>>, privateKey |-> <<>>, mode |-> ""],
   to |-> <<>>, text |-> 0, lookups |-> 0, requests |-> <<>>, result |-> ""]

\* the promise is rejected with error
reject(q, error) == [q EXCEPT !.pc = "done", !.result = error]

\* sendBasicMessage(recipient, 'id', text, account) up to its await fetch
sendBasicMessage(q) ==
  [q EXCEPT !.pc = "fetch",
            !.requests = Append(@, [endpoint |-> "send_simple", to |-> toUpperCase(q.to),
                                    nonce |-> <<>>, text |-> q.text,
                                    bytes |-> sendTextBytes[q.text]])]

\* what generateNonce gives
Nonces == {Rep(NonceBytes, 9), Rep(NonceBytes, 8)}

\* what getPublicKey answers to the cached sends, and the keys in the answers
SendAnswers == UNION {SendLookupAnswers(to) : to \in {RecipientA, RecipientB, RecipientC}}
answeredKey == Tabulated([answer \in SendAnswers |-> hexToBytes(answer.hex)])

\* encryptTextMessage on each text, recipient key, sender key and nonce of the sends
PublicKeysSent ==
  {answeredKey[answer].bytes :
     answer \in {a \in SendAnswers : a.st = "ok" /\ a.hex # <<>> /\ answeredKey[a].ok}}
PrivateKeysSent ==
  {resolvedAccount[cfg][accountId].account.privateKey : cfg \in Configs, accountId \in AccountIds}
encrypted ==
  Tabulated([t \in 1..Len(SendTexts) |-> [pubKey \in PublicKeysSent |->
     [privateKey \in PrivateKeysSent \ {<<>>} |-> [nonce \in Nonces |->
        encryptTextMessage(SendTexts[t], pubKey, privateKey, nonce)]]]])

\* sendE2EMessage(recipientId, text, account, options, pubKey) with the key
\* given, up to its await fetch: encryptTextMessage throws, or the nonce and
\* the box go into the request
sendE2EMessage(q, pubKey, nonce) ==
  LET enc == encrypted[q.text][pubKey][q.account.privateKey][nonce]
  IN  IF enc.st = "throws" THEN reject(q, "Message too large")
      ELSE [q EXCEPT !.pc = "fetch",
                     !.requests = Append(@, [endpoint |-> "send_e2e", to |-> toUpperCase(q.to),
                                             nonce |-> enc.nonce, text |-> q.text,
                                             bytes |-> sendTextBytes[q.text]])]

\* an addToCache that deletes the newest entry of a full Map
addToCacheEvictsNewest(cache, key, value) ==
  cacheSet(IF Len(cache) >= MAX_CACHE_SIZE /\ cache # <<>>
           THEN SubSeq(cache, 1, Len(cache) - 1) ELSE cache,
           key, value)

\* addToCache of send.ts
addToCache(cache, key, value) ==
  cacheSet(IF Len(cache) >= MAX_CACHE_SIZE /\ cache # <<>> THEN Tail(cache) ELSE cache,
           key, value)

\* sendText, and what it calls, up to the first await
sendText(s, cfg, accountId, to, text, nonce) ==
  /\ s \in 1..MaxSends /\ sends[s].pc = "none"
  /\ LET resolved == resolvedAccount[cfg][accountId]
         target == resolvedTarget[to]
         q == [NoSend EXCEPT !.account = resolved.account, !.to = target.to, !.text = text]
         cacheKey == toUpperCase(target.to)
     IN  sends' = [sends EXCEPT ![s] =
           IF resolved.st = "throws" THEN reject(q, "Invalid Threema privateKey")
           ELSE IF resolved.st = "null" THEN reject(q, "Threema account not configured")
           ELSE IF ~target.ok THEN reject(q, target.error)
           ELSE IF resolved.account.mode = "e2e"
           THEN IF cacheHas(publicKeyCache, cacheKey)
                THEN sendE2EMessage(q, cacheGet(publicKeyCache, cacheKey), nonce)
                ELSE [q EXCEPT !.pc = "lookup", !.lookups = @ + 1]
           ELSE sendBasicMessage(q)]
  /\ UNCHANGED publicKeyCache
  /\ UNCHANGED <<bridgeVars, webhookVars, callVars>>

\* sendE2EMessageCached after await getPublicKey
sendE2EMessageCached(s, answer, nonce) ==
  /\ s \in 1..MaxSends /\ sends[s].pc = "lookup"
  /\ LET q == sends[s]
         cacheKey == toUpperCase(q.to)
         pubKey == answeredKey[answer]
     IN  IF answer.st = "throws"
         THEN /\ sends' = [sends EXCEPT ![s] = reject(q, "lookup failed")]
              /\ UNCHANGED publicKeyCache
         ELSE IF answer.st = "null" \/ answer.hex = <<>>
         THEN /\ sends' = [sends EXCEPT ![s] = reject(q, "Could not fetch public key")]
              /\ UNCHANGED publicKeyCache
         ELSE IF ~pubKey.ok
         THEN /\ sends' = [sends EXCEPT ![s] = reject(q, "Invalid hex string")]
              /\ UNCHANGED publicKeyCache
         ELSE /\ publicKeyCache' = addToCache(publicKeyCache, cacheKey, pubKey.bytes)
              /\ sends' = [sends EXCEPT ![s] = sendE2EMessage(q, pubKey.bytes, nonce)]
  /\ UNCHANGED <<bridgeVars, webhookVars, callVars>>

\* await fetch settles: a 2xx response, another response, or a failed fetch
FetchOutcomes == {"ok", "status", "throws"}
sendFetch(s, outcome) ==
  /\ s \in 1..MaxSends /\ sends[s].pc = "fetch"
  /\ sends' = [sends EXCEPT ![s] =
       [@ EXCEPT !.pc = "done",
                 !.result = CASE outcome = "ok" -> "messageId"
                              [] outcome = "status" -> "Threema send failed"
                              [] OTHER -> "fetch failed"]]
  /\ UNCHANGED publicKeyCache
  /\ UNCHANGED <<bridgeVars, webhookVars, callVars>>

\* the caller has the outcome of the call
sendSettled(s) ==
  /\ s \in 1..MaxSends /\ sends[s].pc = "done"
  /\ sends' = [sends EXCEPT ![s] = NoSend]
  /\ UNCHANGED publicKeyCache
  /\ UNCHANGED <<bridgeVars, webhookVars, callVars>>

\* clearPublicKeyCache
clearPublicKeyCache ==
  /\ publicKeyCache' = <<>>
  /\ UNCHANGED sends
  /\ UNCHANGED <<bridgeVars, webhookVars, callVars>>

\* evictFromPublicKeyCache
evictFromPublicKeyCache(threemaId) ==
  /\ publicKeyCache' = SelectSeq(publicKeyCache, LAMBDA e : e.key # toUpperCase(threemaId))
  /\ UNCHANGED sends
  /\ UNCHANGED <<bridgeVars, webhookVars, callVars>>

send ==
  \/ \E s \in {k \in 1..MaxSends : sends[k].pc = "none"} :
       \E cfg \in Configs : \E accountId \in AccountIds : \E to \in Recipients :
         \E text \in 1..Len(SendTexts) : \E nonce \in Nonces :
           sendText(s, cfg, accountId, to, text, nonce)
  \/ \E s \in {k \in 1..MaxSends : sends[k].pc = "lookup"} :
       \E answer \in SendLookupAnswers(sends[s].to) : \E nonce \in Nonces :
         sendE2EMessageCached(s, answer, nonce)
  \/ \E s \in 1..MaxSends : \E outcome \in FetchOutcomes : sendFetch(s, outcome)
  \/ \E s \in 1..MaxSends : sendSettled(s)
  \/ clearPublicKeyCache
  \/ \E threemaId \in Recipients : evictFromPublicKeyCache(threemaId)

(***************************************************************************)
(* The functions of crypto.ts, called one at a time by a user of the       *)
(* module: a call on arguments drawn from the sets below, or a call on the *)
(* result of the call before it.                                           *)
(***************************************************************************)
NoCall == [fn |-> "none", args |-> <<>>, ret |-> <<>>]

\* byte arrays handed to padMessage
MessageLengths ==
  {0, 1, MIN_PADDED_SIZE - 1, MIN_PADDED_SIZE, MIN_PADDED_SIZE + 1}
    \cup {k * PADDING_BLOCK_SIZE + d : k \in 1..MaxBlocks, d \in {-1, 0, 1}}
Messages ==
  {Rep(n, b) : n \in MessageLengths, b \in {0, 1, 255}}
    \cup {<<104, 105>>, <<1, 2, 3, 3>>, <<7, 0>>}

\* byte arrays handed to unpadMessage: well padded and not
PaddedInputs ==
  {padMessage(m) : m \in {<<>>, <<104, 105>>, Rep(MIN_PADDED_SIZE, 1)}}
    \cup {<<>>, <<0>>, <<1>>, <<5>>, <<3, 3, 3>>, <<1, 2, 3, 3>>, <<9, 2, 2>>,
          <<4, 4, 0, 4>>, <<7, 0>>, <<2, 1>>, Rep(254, 255), Rep(300, 255), Rep(255, 255)}

\* the only variables a call changes
callOnly == UNCHANGED <<bridgeVars, webhookVars, sendVars>>

\* padMessage(message)
callPadMessage(message) ==
  /\ call = NoCall
  /\ call' = [fn |-> "padMessage", args |-> message, ret |-> padMessage(message)]
  /\ prev' = NoCall
  /\ callOnly

\* unpadMessage(padded)
callUnpadMessage(padded) ==
  /\ call = NoCall
  /\ call' = [fn |-> "unpadMessage", args |-> padded, ret |-> unpadMessage(padded)]
  /\ prev' = NoCall
  /\ callOnly

\* unpadMessage(padMessage(message))
callUnpadOfPadded ==
  /\ call.fn = "padMessage"
  /\ call' = [fn |-> "unpadMessage", args |-> call.ret, ret |-> unpadMessage(call.ret)]
  /\ prev' = call
  /\ callOnly

\* the caller is done with the result
callReturn ==
  /\ call # NoCall
  /\ call' = NoCall /\ prev' = NoCall
  /\ callOnly

\* the six fields a MAC is computed over
FieldsOf(from, to, messageId, date, nonce, box) ==
  [from |-> from, to |-> to, messageId |-> messageId, date |-> date,
   nonce |-> nonce, box |-> box]

BaseFields ==
  FieldsOf(SenderA, account.id, <<"0", "1">>, <<"1", "7">>, <<"0", "0">>, <<"f", "f">>)

\* the field tuples MACs are computed and verified for: the base tuple, one
\* with each field changed, and tuples with the same characters cut
\* differently into fields
FieldTuples ==
  { BaseFields,
    [BaseFields EXCEPT !.from = SenderB],
    [BaseFields EXCEPT !.to = <<"*", "A", "C", "F">>],
    [BaseFields EXCEPT !.messageId = <<"0", "2">>],
    [BaseFields EXCEPT !.date = <<"1", "8">>],
    [BaseFields EXCEPT !.nonce = <<"0", "1">>],
    [BaseFields EXCEPT !.box = <<"f", "e">>],
    [BaseFields EXCEPT !.box = <<"F", "F">>],
    [BaseFields EXCEPT !.nonce = <<"0", "0", "f">>, !.box = <<"f">>],
    [BaseFields EXCEPT !.date = <<"1">>, !.nonce = <<"7", "0", "0">>],
    [BaseFields EXCEPT !.messageId = <<"0", "1", " ">>] }

\* what a caller may provide as the MAC, given the computed one
MacVariants == {"same", "upper", "mixed", "shorter", "longer", "first", "last", "empty", "nohex"}
MacVariant(mac, v) ==
  CASE v = "same" -> mac
    [] v = "upper" -> toUpperCase(mac)
    [] v = "mixed" -> toUpperCase(SubSeq(mac, 1, 2)) \o SubSeq(mac, 3, Len(mac))
    [] v = "shorter" -> SubSeq(mac, 1, Len(mac) - 1)
    [] v = "longer" -> mac \o <<"0">>
    [] v = "first" -> <<(IF mac[1] = "0" THEN "1" ELSE "0")>> \o Tail(mac)
    [] v = "last" -> SubSeq(mac, 1, Len(mac) - 1) \o <<(IF mac[Len(mac)] = "a" THEN "b" ELSE "a")>>
    [] v = "empty" -> <<>>
    [] OTHER -> SubSeq(mac, 1, Len(mac) - 1) \o <<"g">>

\* computeWebhookMac(apiSecret, from, to, messageId, date, nonce, box)
callComputeWebhookMac(f) ==
  /\ call = NoCall
  /\ call' = [fn |-> "computeWebhookMac",
              args |-> [apiSecret |-> account.secret, fields |-> f],
              ret |-> computeWebhookMac(account.secret, f.from, f.to, f.messageId,
                                        f.date, f.nonce, f.box)]
  /\ prev' = NoCall
  /\ callOnly

\* verifyWebhookMac(apiSecret, from, ..., box, mac) on a MAC that came from
\* computeWebhookMac under the same secret
callVerifyWebhookMac(f, v) ==
  /\ call.fn = "computeWebhookMac"
  /\ LET mac == MacVariant(call.ret, v)
     IN  call' = [fn |-> "verifyWebhookMac",
                  args |-> [apiSecret |-> call.args.apiSecret, fields |-> f, mac |-> mac],
                  ret |-> verifyWebhookMac(call.args.apiSecret, f.from, f.to, f.messageId,
                                           f.date, f.nonce, f.box, mac)]
  /\ prev' = call
  /\ callOnly

\* the secret keys of the key pairs in use
SecretKeys == {Rep(KeyBytes, 3), Rep(KeyBytes, 4), Rep(KeyBytes, 5)}

\* the texts handed to encryptTextMessage: empty, short, with characters of
\* two, three and four bytes, with U+FEFF at the start and inside, with a
\* typed payload that fills whole blocks, and at and above the limit
Texts ==
  { <<>>, <<104, 105>>, <<233>>, <<8364, 128512>>,
    <<ByteOrderMark, 104, 105>>, <<104, ByteOrderMark>>,
    Rep(TEXT_MAX_BYTES, 104), Rep(TEXT_MAX_BYTES + 1, 104),
    Rep(TEXT_MAX_BYTES \div 2, 233), Rep(TEXT_MAX_BYTES \div 2, 233) \o <<104>> }
    \cup {Rep(k * PADDING_BLOCK_SIZE - 1, 104) : k \in 1..MaxBlocks}

\* a box with one byte changed
Tampers == {"none", "first", "second", "last"}
Tamper(box, t) ==
  LET i == CASE t = "first" -> 1 [] t = "second" -> 2 [] OTHER -> Len(box)
  IN  IF t = "none" \/ box = <<>> THEN box ELSE [box EXCEPT ![i] = 255 - box[i]]

\* boxes a sender makes with nacl.box itself: a padding trailer of 0, a
\* trailer with a wrong byte, padding and nothing else, a message of another
\* type; and arguments of the wrong length
DecryptInputs ==
  LET pk == getPublicKeyFromSecretKey(Rep(KeyBytes, 3))
      sk == Rep(KeyBytes, 4)
      n == Rep(NonceBytes, 9)
      in(msg, nonce, key) ==
        [box |-> naclBox(msg, n, getPublicKeyFromSecretKey(sk), Rep(KeyBytes, 3)),
         nonce |-> nonce, senderPublicKey |-> key, recipientSecretKey |-> sk]
  IN  { in(<<1, 2, 3, 0>>, n, pk), in(<<1, 5, 3, 3>>, n, pk), in(<<1, 9>>, n, pk),
        in(Rep(MIN_PADDED_SIZE, MIN_PADDED_SIZE), n, pk),
        in(padMessage(<<2, 7>>), n, pk), in(padMessage(<<MessageTypeText, 104>>), n, pk),
        [in(<<1, 1>>, n, pk) EXCEPT !.box = <<>>],
        in(padMessage(<<MessageTypeText, 104>>), Rep(NonceBytes - 1, 9), pk),
        in(padMessage(<<MessageTypeText, 104>>), n, Rep(KeyBytes - 1, 216)) }

\* encryptTextMessage(text, recipientPublicKey, senderSecretKey)
callEncryptTextMessage(text, recipient, sender, nonce) ==
  /\ call = NoCall
  /\ call' = [fn |-> "encryptTextMessage",
              args |-> [text |-> text,
                        recipientPublicKey |-> getPublicKeyFromSecretKey(recipient),
                        senderSecretKey |-> sender],
              ret |-> encryptTextMessage(text, getPublicKeyFromSecretKey(recipient),
                                         sender, nonce)]
  /\ prev' = NoCall
  /\ callOnly

\* decryptMessage on the envelope encryptTextMessage returned, as it is or
\* with one byte changed
callDecryptOfEncrypted(sender, recipient, t) ==
  /\ call.fn = "encryptTextMessage" /\ call.ret.st = "ok"
  /\ LET box == Tamper(call.ret.box, t)
         pk == getPublicKeyFromSecretKey(sender)
     IN  call' = [fn |-> "decryptMessage",
                  args |-> [box |-> box, nonce |-> call.ret.nonce,
                            senderPublicKey |-> pk, recipientSecretKey |-> recipient],
                  ret |-> decryptMessage(box, call.ret.nonce, pk, recipient)]
  /\ prev' = call
  /\ callOnly

\* decryptMessage(box, nonce, senderPublicKey, recipientSecretKey)
callDecryptMessage(in) ==
  /\ call = NoCall
  /\ call' = [fn |-> "decryptMessage", args |-> in,
              ret |-> decryptMessage(in.box, in.nonce, in.senderPublicKey,
                                     in.recipientSecretKey)]
  /\ prev' = NoCall
  /\ callOnly

codec ==
  \/ \E message \in Messages : callPadMessage(message)
  \/ \E padded \in PaddedInputs : callUnpadMessage(padded)
  \/ callUnpadOfPadded
  \/ \E f \in FieldTuples : callComputeWebhookMac(f)
  \/ \E f \in FieldTuples : \E v \in MacVariants : callVerifyWebhookMac(f, v)
  \/ \E text \in Texts : \E recipient, sender \in SecretKeys : \E nonce \in Nonces :
       callEncryptTextMessage(text, recipient, sender, nonce)
  \/ \E sender, recipient \in SecretKeys : \E t \in Tampers :
       callDecryptOfEncrypted(sender, recipient, t)
  \/ \E in \in DecryptInputs : callDecryptMessage(in)
  \/ callReturn


(***************************************************************************)
(* The two key caches as Maps: the operations send.ts and receive.ts       *)
(* apply to publicKeyCache and to senderPublicKeyCache, one at a time, on  *)
(* the Map as the operation before left it.                                *)
(***************************************************************************)
CacheNames == {"publicKeyCache", "senderPublicKeyCache"}

\* the keys the callers compute (cacheKey = id.toUpperCase()) and the values
CacheKeys == {RecipientA, RecipientB, RecipientC, <<"D", "E", "A", "D", "B", "E", "E", "F">>}
CacheValues == {getPublicKeyFromSecretKey(Rep(KeyBytes, 3)), getPublicKeyFromSecretKey(Rep(KeyBytes, 4))}

\* the operations go on with the Map they started with
sameMap(map) == IF call.fn = "none" THEN TRUE ELSE call.args.map = map
\* the Map now: empty at module load, then as the last operation left it
mapNow == IF call.fn = "none" THEN <<>> ELSE call.ret.cache

\* addToCache(publicKeyCache, key, value), addToSenderCache(key, value)
callAddToCache(map, key, value) ==
  /\ sameMap(map)
  /\ call' = [fn |-> "add",
              args |-> [map |-> map, cache |-> mapNow, key |-> key, value |-> value],
              ret |-> [cache |-> IF map = "publicKeyCache"
                                 THEN addToCache(mapNow, key, value)
                                 ELSE addToSenderCache(mapNow, key, value),
                       value |-> <<>>]]
  /\ prev' = call
  /\ callOnly

\* publicKeyCache.get(cacheKey), senderPublicKeyCache.get(cacheKey): the Map
\* is left as it was, the value is empty for undefined
callCacheGet(map, key) ==
  /\ sameMap(map)
  /\ call' = [fn |-> "get",
              args |-> [map |-> map, cache |-> mapNow, key |-> key, value |-> <<>>],
              ret |-> [cache |-> mapNow,
                       value |-> IF cacheHas(mapNow, key) THEN cacheGet(mapNow, key)
                                 ELSE <<>>]]
  /\ prev' = call
  /\ callOnly

\* evictFromPublicKeyCache(id), evictSenderFromCache(id): Map.delete
callCacheDelete(map, threemaId) ==
  /\ sameMap(map)
  /\ call' = [fn |-> "delete",
              args |-> [map |-> map, cache |-> mapNow, key |-> threemaId, value |-> <<>>],
              ret |-> [cache |-> SelectSeq(mapNow, LAMBDA e : e.key # toUpperCase(threemaId)),
                       value |-> <<>>]]
  /\ prev' = call
  /\ callOnly

\* clearPublicKeyCache(), clearSenderKeyCache(): Map.clear
callCacheClear(map) ==
  /\ sameMap(map)
  /\ call' = [fn |-> "clear",
              args |-> [map |-> map, cache |-> mapNow, key |-> <<>>, value |-> <<>>],
              ret |-> [cache |-> <<>>, value |-> <<>>]]
  /\ prev' = call
  /\ callOnly

cache ==
  \/ \E map \in CacheNames : \E key \in CacheKeys : \E value \in CacheValues :
       callAddToCache(map, key, value)
  \/ \E map \in CacheNames : \E key \in CacheKeys : callCacheGet(map, key)
  \/ \E map \in CacheNames : \E threemaId \in CacheKeys \cup {toLowerCase(RecipientA)} :
       callCacheDelete(map, threemaId)
  \/ \E map \in CacheNames : callCacheClear(map)

(***************************************************************************)
(* The plugin at work: webhook deliveries and cached sends of one account  *)
(* side by side, with the evict and clear operations of both caches.       *)
(***************************************************************************)
\* the callbacks delivered: from three senders, one of them in both cases
DeliveredBodies ==
  {i \in DOMAIN Bodies :
     Bodies[i] \in { GoodBody,
                     Callback(SenderB, <<111, 107>>, Rep(NonceBytes, 8)),
                     Callback(toLowerCase(SenderA), <<104, 105>>, Rep(NonceBytes, 9)),
                     Callback(SenderC, <<111, 107>>, Rep(NonceBytes, 8)) }}

\* the response has been written: the handler's invocation is over
handlerEnd(r) ==
  /\ r \in 1..MaxReqs /\ reqs[r].pc = "done"
  /\ reqs' = [reqs EXCEPT ![r] = NoReq]
  /\ UNCHANGED senderPublicKeyCache
  /\ UNCHANGED <<bridgeVars, callVars, sendVars>>

\* outbound.send of the channel plugin after its await: settled is what
\* sendText settled with, "messageId" for the resolved { messageId } and the
\* error of a rejected promise otherwise, which outbound.send does not catch.
\* The resolved object has no property ok, so result.ok is undefined.
outboundSendReturns(settled) ==
  IF settled # "messageId"
  THEN [thrown |-> settled, ok |-> FALSE, error |-> "", messageId |-> ""]
  ELSE LET result == [messageId |-> settled]
       IN  IF "ok" \notin DOMAIN result
           THEN [thrown |-> "", ok |-> FALSE, error |-> "undefined", messageId |-> ""]
           ELSE [thrown |-> "", ok |-> TRUE, error |-> "", messageId |-> result.messageId]

\* const result = await threemaModule.sendText(params); ...; return
outboundSend(s) ==
  /\ s \in 1..MaxSends /\ sends[s].pc = "done"
  /\ sends' = [sends EXCEPT ![s] =
       [sends[s] EXCEPT !.pc = "returned", !.result = outboundSendReturns(sends[s].result)]]
  /\ UNCHANGED publicKeyCache
  /\ UNCHANGED <<bridgeVars, webhookVars, callVars>>

\* the caller of outbound.send has what it returned
outboundSendEnd(s) ==
  /\ s \in 1..MaxSends /\ sends[s].pc = "returned"
  /\ sends' = [sends EXCEPT ![s] = NoSend]
  /\ UNCHANGED publicKeyCache
  /\ UNCHANGED <<bridgeVars, webhookVars, callVars>>

\* the cached sends: short texts of the e2e account to three recipients
CachedRecipients == {RecipientA, toLowerCase(RecipientA), RecipientB, RecipientC}

deliveries ==
  \/ \E r \in 1..MaxInFlight : \E body \in DeliveredBodies :
       createWebhookHandler(r, "POST", body)
  \/ \E r \in 1..MaxInFlight : parseUrlEncodedBody(r, TRUE)
  \/ \E r \in 1..MaxInFlight : processWebhook(r)
  \/ \E r \in {k \in 1..MaxInFlight : reqs[k].pc = "lookup"} :
       \E answer \in LookupAnswers(bodyOf(reqs[r]).from) : getSenderPublicKey(r, answer)
  \/ \E r \in 1..MaxInFlight : onMessage(r, TRUE)
  \/ \E r \in 1..MaxInFlight : handlerEnd(r)
  \/ clearSenderKeyCache
  \/ \E senderId \in {SenderA, toLowerCase(SenderA), SenderB, SenderC} :
       evictSenderFromCache(senderId)

cachedSends ==
  \/ \E s \in {k \in 1..MaxInFlight : sends[k].pc = "none"} : \E to \in CachedRecipients :
       sendText(s, OpenClawConfig(TRUE, E2EConfig, <<>>), "", to, 1, Rep(NonceBytes, 9))
  \/ \E s \in {k \in 1..MaxInFlight : sends[k].pc = "lookup"} :
       \E answer \in SendLookupAnswers(sends[s].to) :
         sendE2EMessageCached(s, answer, Rep(NonceBytes, 9))
  \/ \E s \in 1..MaxInFlight : sendFetch(s, "ok")
  \/ \E s \in 1..MaxInFlight : outboundSend(s)
  \/ \E s \in 1..MaxInFlight : outboundSendEnd(s)
  \/ clearPublicKeyCache
  \/ \E threemaId \in CachedRecipients : evictFromPublicKeyCache(threemaId)

plugin == deliveries \/ cachedSends

Init ==
  /\ BridgeInit
  /\ senderPublicKeyCache = <<>>
  /\ reqs = [r \in 1..MaxReqs |-> NoReq]
  /\ call = NoCall /\ prev = NoCall
  /\ publicKeyCache = <<>>
  /\ sends = [s \in 1..MaxSends |-> NoSend]

(***************************************************************************)
(* The bridge process.                                                     *)
(***************************************************************************)
readLoop ==
  \/ readLoopScan
  \/ \E l \in Lines : readLoopTooLong(l)
  \/ readLoopEOF
  \/ \E l \in Lines : readLoopSkip(l)
  \/ \E l \in Lines : handleConnect(l)
  \/ \E ok \in BOOLEAN : handleConnectDial(ok)
  \/ \E l \in Lines : handleSend(l)
  \/ \E l \in Lines : handleTrust(l)
  \/ \E l \in Lines : handlePing(l)
  \/ \E l \in Lines : handleUnknown(l)

reconnect ==
  \E i \in DOMAIN tasks :
    \/ reconnectCheck(i)
    \/ reconnectTimer(i)
    \/ reconnectCancel(i)
    \/ reconnectIdentify(i)
    \/ \E ok \in BOOLEAN : reconnectDial(i, ok)
    \/ reconnectEmit(i)

transport ==
  \E c \in 1..MaxConns :
    \/ handlerMessage(c)
    \/ \E r \in BOOLEAN : handlerError(c, r)
    \/ handlerClosed(c)

writeLoop == writeLoopEncode \/ writeLoopShutdown \/ writeLoopDrain

Run == RunStart \/ RunClose \/ RunWait

Next == Run \/ SignalShutdown \/ readLoop \/ writeLoop \/ reconnect \/ transport

Spec == Init /\ [][Next]_vars

WebhookSpec == Init /\ [][webhook]_vars

CodecSpec == Init /\ [][codec]_vars

SendSpec == Init /\ [][send]_vars

CacheSpec == Init /\ [][cache]_vars

PluginSpec == Init /\ [][plugin]_vars

\* the bridge of Init with room for MaxCycles reconnect goroutines:
\* scheduleReconnect starts a goroutine at every call
ReconnectInit ==
  /\ NewBridge
  /\ conns = <<>> /\ tasks = [i \in 1..MaxCycles |-> NoTask]
  /\ runPc = "start" /\ sigPc = "idle" /\ readPc = "idle" /\ writePc = "idle"
  /\ stdin = "open" /\ panicked = FALSE
  /\ senderPublicKeyCache = <<>>
  /\ reqs = [r \in 1..MaxReqs |-> NoReq]
  /\ call = NoCall /\ prev = NoCall
  /\ publicKeyCache = <<>>
  /\ sends = [s \in 1..MaxSends |-> NoSend]

ReconnectSpec == ReconnectInit /\ [][Next]_vars

TypeOK ==
  /\ id \in {NoId, "MYID1234"}
  /\ conn \in 0..Len(conns)
  /\ mu \in {"free", "cmd", "task"}
  /\ Len(output) <= OutputCap
  /\ wg \in 0..(2 + MaxTasks)
  /\ Len(conns) <= MaxConns

(***************************************************************************)
(* Fairness: the Go scheduler runs every runnable goroutine, a timer       *)
(* fires, sync.Mutex hands the lock to a goroutine that keeps waiting, and *)
(* a Connect that is tried again and again while the network allows it     *)
(* eventually succeeds.  Nothing is assumed of stdin, of signals or of the *)
(* transport callbacks.                                                    *)
(***************************************************************************)
readLoopHandle ==
  \/ \E l \in Lines : readLoopSkip(l)
  \/ \E l \in Lines : handleConnect(l)
  \/ \E ok \in BOOLEAN : handleConnectDial(ok)
  \/ \E l \in Lines : handleSend(l)
  \/ \E l \in Lines : handleTrust(l)
  \/ \E l \in Lines : handlePing(l)
  \/ \E l \in Lines : handleUnknown(l)

Fairness ==
  /\ WF_vars(Run)
  /\ WF_vars(writeLoop)
  /\ WF_vars(readLoopHandle)
  /\ \A i \in 1..MaxTasks :
       /\ WF_vars(reconnectCheck(i))
       /\ WF_vars(reconnectTimer(i) \/ reconnectCancel(i))
       /\ SF_vars(reconnectIdentify(i))
       /\ WF_vars(\E ok \in BOOLEAN : reconnectDial(i, ok))
       /\ SF_vars(reconnectDial(i, TRUE))
       /\ WF_vars(reconnectEmit(i))

FairSpec == Spec /\ Fairness

(***************************************************************************)
(* Properties of the connection supervisor.                                *)
(***************************************************************************)
\* event e was handed to emit in this step: it is enqueued, or it is dropped
\* by a full queue or by the closed shutdown channel
emitted(e) ==
  \/ output' = Append(output, e)
  \/ output' = output /\ (Len(output) >= OutputCap \/ shutdown)

\* one step of C1_SendOnlyWhenConnected
C1_SendOnlyWhenConnectedStep ==
  \A l \in Lines : \A trusted \in Trust : \A sent \in {"ok", "fail", "none"} :
    handleSendWith(l, trusted, sent) =>
      /\ sent # "none" => Connected
      /\ ~Connected =>
           /\ sent = "none"
           /\ handleSendErr(l, trusted, sent) = "not connected"
           /\ emitted(EventError)

\* C1: a send reaches the transport (SendText is called) only while the
\* supervisor is Connected; in every other state the send fails with an
\* error (the not-connected error) and SendText is not called.
C1_SendOnlyWhenConnected == [][ C1_SendOnlyWhenConnectedStep ]_vars

\* one step of C2_OneConnectedPerSuccess
C2_OneConnectedPerSuccessStep ==
  \A i \in 1..MaxTasks :
    LET t == tasks[i]
        u == tasks'[i]
    IN  /\ (u.pc = "lock" /\ t.pc # "lock") => t.pc = "wait"
        /\ (u.pc = "connect" /\ t.pc # "connect") => t.pc = "lock"
        /\ (u.pc = "emit" /\ t.pc # "emit") =>
             /\ t.pc = "connect"
             /\ Len(conns') = Len(conns) + 1
             /\ conn' = Len(conns') /\ conns'[conn'] = "live"
             /\ output' = output
        /\ (t.pc \in {"lock", "connect"} /\ u.pc = "check") =>
             /\ output' = output
             /\ conns' = conns /\ conn' = conn
        /\ (t.pc = "emit" /\ u # t) =>
             /\ u = NoTask
             /\ emitted(EventConnected)
        /\ (t.pc \in {"check", "wait"} /\ u # t) => output' = output

\* C2: after a transport closure the reconnect goroutine waits
\* (Reconnecting), attempts (Connecting) and, when an attempt succeeds, holds
\* a live connection (Connected); a failed attempt emits nothing and leads to
\* the next attempt, a successful one emits exactly one connected event.
C2_OneConnectedPerSuccess == [][ C2_OneConnectedPerSuccessStep ]_vars

\* C2 witness: a goroutine whose attempt succeeded after two failed ones
C2_Witness ==
  \E i \in 1..MaxTasks : tasks[i].pc = "emit" /\ tasks[i].attempt = 2 /\ Connected

\* one step of C3_ShutdownTerminal
C3_ShutdownTerminalStep ==
  runPc \in {"wait", "done"} =>
    \A i \in 1..MaxTasks :
      /\ ~(tasks[i].pc = "connect" /\ tasks'[i].pc = "emit")
      /\ ~(tasks[i].pc = "emit" /\ tasks'[i] = NoTask /\ output' = Append(output, EventConnected))

\* C3: once shutdown is signalled and Run has closed the connection, no
\* reconnect goroutine opens a new connection or emits a connected event.
C3_ShutdownTerminal == [][ C3_ShutdownTerminalStep ]_vars

\* C4: the signal and the end of stdin together shut the bridge down once;
\* the second trigger causes no fault.
C4_ShutdownOnce == (sigPc = "done" /\ stdin = "closed") => ~panicked

\* C5: after shutdown is signalled every goroutine finishes and Run
\* returns; a signal alone lets the read loop finish.  Runs that end in the
\* fault of C4 are set aside.
C5_ShutdownCompletes == shutdown ~> (readPc = "done" \/ panicked)

\* one step of C6_RetryUntilSuccess
C6_RetryUntilSuccessStep ==
  \A i \in 1..MaxTasks :
    LET t == tasks[i]
        u == tasks'[i]
    IN  /\ (t.pc = "lock" /\ u # t) =>
             \/ u.pc = "connect" /\ u.attempt = t.attempt
             \/ u.pc = "check" /\ u.attempt = Min(t.attempt + 1, MaxAttempt)
             \/ u = NoTask /\ (backup = "" \/ password = "")
        /\ (t.pc = "connect" /\ u # t) =>
             \/ u.pc = "emit" /\ u.attempt = t.attempt
             \/ u.pc = "check" /\ u.attempt = Min(t.attempt + 1, MaxAttempt)
        /\ (t.pc = "check" /\ u # t) =>
             \/ u.pc = "wait" /\ u.attempt = t.attempt
             \/ u = NoTask /\ shutdown
        /\ (t.pc = "wait" /\ u # t) =>
             \/ u.pc = "lock" /\ u.attempt = t.attempt
             \/ u = NoTask /\ shutdown

\* a reconnect goroutine can make no further progress towards a connection:
\* shutdown, the end of the process, credentials that are missing or do not
\* load, or a transport that opens no further connection
C6_CannotSucceed ==
  \/ shutdown \/ ~alive
  \/ Identify(backup, password) = NoId
  \/ Len(conns) = MaxConns

\* C6: while credentials are stored, a failed reconnect attempt (Identify or
\* Connect failed) leads to the next attempt whatever the number of attempts
\* made, and the goroutine ends only after a successful attempt or after
\* shutdown; so a goroutine whose attempts can succeed eventually holds a
\* new connection and emits the connected event.
C6_RetryUntilSuccess ==
  /\ [][ C6_RetryUntilSuccessStep ]_vars
  /\ \A i \in 1..MaxTasks :
       (tasks[i].pc # "none") ~> (tasks[i].pc \in {"emit", "none"} \/ C6_CannotSucceed)

\* C6 witness: a goroutine back at the loop head after more failed attempts
\* than the table has entries
C6_Witness ==
  \E i \in 1..MaxTasks :
    /\ tasks[i].pc = "check" /\ tasks[i].attempt = MaxAttempt
    /\ tasks[i].delay = 60 /\ tasks[i].prev = 60
    /\ ~shutdown /\ alive

\* the table of section 4.6: 1s, 2s, 5s, 10s, 30s, 60s, then 60s
BackoffTable(n) ==
  CASE n = 0 -> 1 [] n = 1 -> 2 [] n = 2 -> 5 [] n = 3 -> 10 [] n = 4 -> 30 [] OTHER -> 60

\* C7: the delay before attempt n is the n-th table entry, 60s from the
\* sixth on; the delays of a cycle never decrease and never exceed 60s; a
\* cycle starts at the first entry.
C7_Backoff ==
  \A i \in 1..MaxTasks :
    LET t == tasks[i]
    IN  /\ t.pc \in {"wait", "lock", "connect", "emit"} =>
             /\ t.delay = BackoffTable(t.attempt)
             /\ t.prev <= t.delay
             /\ t.delay <= 60
        /\ (t.pc = "check" /\ t.attempt = 0) => (t.delay = 0 /\ t.prev = 0)
        /\ (t.pc = "check" /\ t.attempt > 0) => t.delay = BackoffTable(t.attempt - 1)

\* C7 witness: a goroutine waiting at the ceiling for the second time
C7_Witness ==
  \E i \in 1..MaxTasks :
    tasks[i].pc = "wait" /\ tasks[i].attempt >= 6 /\ tasks[i].delay = 60 /\ tasks[i].prev = 60

\* one step of C8_BadLineAnswered
C8_BadLineAnsweredStep ==
  /\ \A l \in Lines :
       /\ (readLoopSkip(l) /\ l.size # 0) => emitted(EventError)
       /\ handleUnknown(l) => emitted(EventError)
       /\ (handleConnect(l) /\ readPc' = "scan") => emitted(EventError)
       /\ \A trusted \in Trust :
            /\ (handleTrustWith(l, trusted) /\ handleTrustErr(l, trusted) # "nil") =>
                 emitted(EventError)
            /\ \A sent \in {"ok", "fail", "none"} :
                 (handleSendWith(l, trusted, sent) /\ handleSendErr(l, trusted, sent) # "nil") =>
                   emitted(EventError)
  /\ handleConnectDial(FALSE) => emitted(EventError)
  /\ (readPc = "line" /\ readPc' # "line") => readPc' \in {"scan", "connect"}
  /\ (readPc = "connect" /\ readPc' # "connect") => readPc' = "scan"
  /\ (readPc = "scan" /\ readPc' = "done") => (shutdown \/ stdin' = "closed")
  /\ (readPc = "scan" /\ stdin' = "open" /\ sigPc' = sigPc) =>
       (shutdown' = shutdown /\ panicked' = panicked)

\* C8: a line that cannot be executed is answered with an error event, the
\* read loop goes on to the next line, and no line initiates shutdown: the
\* read loop ends, and the shutdown channel is closed by it, only at the end
\* of stdin or after shutdown was signalled.
C8_BadLineAnswered == [][ C8_BadLineAnsweredStep ]_vars

\* one step of C9_PingPong
C9_PingPongStep ==
  \A l \in Lines :
    handlePing(l) =>
      /\ emitted(EventPong)
      /\ (Len(output) < OutputCap /\ ~shutdown) => output' = Append(output, EventPong)
      /\ UNCHANGED <<id, conn, backup, password, conns>>

\* C9: in every connection state a ping is answered with a pong event and
\* leaves identity, connection handle and credentials as they were.
C9_PingPong == [][ C9_PingPongStep ]_vars

\* C9 witness: a pong queued while a reconnect goroutine is connecting
C9_Witness ==
  /\ readPc = "scan" /\ mu = "task"
  /\ conn # 0 /\ conns[conn] = "closed"
  /\ output = <<EventPong>>

(***************************************************************************)
(* Properties of the webhook pipeline.                                     *)
(***************************************************************************)
\* body i has all seven fields
bodyComplete == [i \in DOMAIN Bodies |-> validatePayload(Bodies[i])]

\* the mac field of body i is the HMAC of its six other fields
bodyMacVerifies ==
  [i \in DOMAIN Bodies |->
     LET b == Bodies[i]
     IN  toLowerCase(b.mac) =
           computeWebhookMac(account.secret, b.from, b.to, b.messageId, b.date, b.nonce, b.box)]

\* the box of body i opens under the key of its sender
bodyBoxDecrypts ==
  [i \in DOMAIN Bodies |->
     LET b == Bodies[i]
     IN  /\ hexToBytes(b.nonce).ok /\ hexToBytes(b.box).ok
         /\ decryptMessage(hexToBytes(b.box).bytes, hexToBytes(b.nonce).bytes,
                           getPublicKeyFromSecretKey(secretKeyOf(b.from)),
                           account.privateKey).st = "ok"]

\* request q is a POST whose body has all seven fields
complete(q) == q.method = "POST" /\ q.body # 0 /\ bodyComplete[q.body]

\* the MAC of q's body verifies
macVerifies(q) == q.body # 0 /\ bodyMacVerifies[q.body]

\* the box of q's body decrypts
boxDecrypts(q) == q.body # 0 /\ bodyBoxDecrypts[q.body]

\* the steps of the handler in their order
stage(q) ==
  CASE q.pc = "none" -> 0 [] q.pc = "body" -> 1 [] q.pc = "mac" -> 2
    [] q.pc = "lookup" -> 3 [] q.pc = "deliver" -> 4 [] OTHER -> 5

\* what request q has done is allowed by what it carries
C10_Allowed(q) ==
  /\ q.lookups <= 1 /\ q.decrypts <= 1 /\ Len(q.delivered) <= 1
  /\ stage(q) \in 2..4 => complete(q)
  /\ stage(q) \in 3..4 => macVerifies(q)
  /\ stage(q) = 4 => Len(q.delivered) = 1
  /\ q.lookups = 1 => (complete(q) /\ macVerifies(q))
  /\ q.decrypts = 1 => (complete(q) /\ macVerifies(q))
  /\ Len(q.delivered) = 1 =>
       /\ q.decrypts = 1 /\ boxDecrypts(q)
       /\ q.delivered[1].from = bodyOf(q).from
       /\ q.delivered[1].messageId = bodyOf(q).messageId

\* one step of C10_PipelineOrder
C10_PipelineOrderStep ==
  \A r \in 1..MaxReqs :
    LET q == reqs[r]
        n == reqs'[r]
    IN  n # q =>
          /\ stage(n) > stage(q)
          /\ C10_Allowed(n)
          /\ n.lookups # q.lookups => (stage(q) = 2 /\ stage(n) = 3)
          /\ n.decrypts # q.decrypts => stage(q) \in 2..3
          /\ n.delivered # q.delivered => (stage(n) = 4 /\ n.decrypts = q.decrypts + 1)
          /\ senderPublicKeyCache' # senderPublicKeyCache =>
               (stage(q) = 3 /\ complete(n) /\ macVerifies(n))

\* C10: a request passes validation, MAC check, key lookup, decryption and
\* delivery in this order, each only after the earlier ones succeeded;
\* onMessage is invoked at most once per request and only for a body with
\* all seven fields, a MAC that verifies and a box that decrypts; a request
\* with a missing field or a wrong MAC causes no key lookup, no change of
\* the sender cache and no decryption.
C10_PipelineOrder == [][ C10_PipelineOrderStep ]_vars

\* C10 witness: one request was delivered after a lookup, another one with a
\* wrong MAC was answered without a lookup
C10_Witness ==
  \E r, k \in 1..MaxReqs :
    /\ reqs[r].pc = "done" /\ reqs[r].status = 200
    /\ Len(reqs[r].delivered) = 1 /\ reqs[r].lookups = 1
    /\ reqs[k].pc = "done" /\ reqs[k].status = 200
    /\ complete(reqs[k]) /\ ~macVerifies(reqs[k])
    /\ reqs[k].lookups = 0 /\ reqs[k].decrypts = 0 /\ reqs[k].delivered = <<>>

\* C11: every POST callback is answered with status 200 whatever its
\* processing led to (success, missing field, MAC mismatch, no public key,
\* decryption failure, failing onMessage); it has no other status, and it has
\* none before it is answered.
C11_Always200 ==
  \A r \in 1..MaxReqs :
    reqs[r].method = "POST" =>
      /\ reqs[r].status \in {0, 200}
      /\ reqs[r].status = 200 <=> reqs[r].pc = "done"

\* C11 witness: a request with a wrong MAC and a request whose box did not
\* decrypt were both answered with 200
C11_Witness ==
  \E r, k \in 1..MaxReqs :
    /\ reqs[r].pc = "done" /\ reqs[r].status = 200
    /\ complete(reqs[r]) /\ ~macVerifies(reqs[r])
    /\ reqs[k].pc = "done" /\ reqs[k].status = 200
    /\ reqs[k].decrypts = 1 /\ reqs[k].delivered = <<>>

(***************************************************************************)
(* Properties of the codec.                                                *)
(***************************************************************************)
\* C14: for every byte sequence m, also the empty one and those whose length
\* is a multiple of 256, unpadMessage(padMessage(m)) succeeds and returns m.
C14_PadRoundTrip ==
  (call.fn = "unpadMessage" /\ prev.fn = "padMessage") =>
    /\ call.args = prev.ret
    /\ call.ret.ok
    /\ call.ret.bytes = prev.args

\* C14 witness: a message of 256 bytes, each 255, made the round trip
C14_Witness ==
  /\ call.fn = "unpadMessage" /\ prev.fn = "padMessage"
  /\ prev.args = Rep(PADDING_BLOCK_SIZE, 255)
  /\ call.ret.ok

\* C15: padMessage(m) has at least 32 bytes, exactly 32 when m has fewer than
\* 32; when m has 32 or more, the padded length is the smallest multiple of
\* 256 strictly greater than the length of m.
C15_PaddedLength ==
  call.fn = "padMessage" =>
    LET n == Len(call.args)
    IN  /\ Len(call.ret) >= 32
        /\ n < 32 => Len(call.ret) = 32
        /\ n >= 32 => Len(call.ret) = ((n \div 256) + 1) * 256

\* C19: unpadMessage fails, and returns no bytes, on an input that is empty,
\* whose last byte p is 0 or exceeds the length, or whose last p bytes are
\* not all p; on every other input it returns the input without its last p
\* bytes.
C19_UnpadFailures ==
  call.fn = "unpadMessage" =>
    LET x == call.args
        n == Len(x)
        bad == \/ n = 0
               \/ x[n] = 0
               \/ x[n] > n
               \/ \E i \in 1..n : i > n - x[n] /\ x[i] # x[n]
    IN  IF bad
        THEN ~call.ret.ok /\ call.ret.bytes = <<>>
        ELSE call.ret.ok /\ call.ret.bytes = SubSeq(x, 1, n - x[n])

\* C19 witness: an input whose trailer holds a wrong byte was refused
C19_Witness ==
  /\ call.fn = "unpadMessage" /\ prev = NoCall
  /\ call.args = <<1, 2, 3, 3>>
  /\ ~call.ret.ok

\* C12: for every two field tuples that differ in at least one field, the
\* MAC computeWebhookMac yields for the first is refused by verifyWebhookMac
\* for the second under the same secret.
C12_MacBindsFields ==
  ( /\ call.fn = "verifyWebhookMac" /\ prev.fn = "computeWebhookMac"
    /\ call.args.mac = prev.ret
    /\ call.args.apiSecret = prev.args.apiSecret
    /\ call.args.fields # prev.args.fields )
  => call.ret = FALSE

\* the characters of the fields in the order the MAC reads them
macData(f) == f.from \o f.to \o f.messageId \o f.date \o f.nonce \o f.box

\* a differs from b at most in the case of its letters
sameIgnoringCase(a, b) ==
  /\ Len(a) = Len(b)
  /\ \A i \in 1..Len(a) :
       \/ a[i] = b[i]
       \/ Code(a[i]) \in 11..22 /\ Code(b[i]) \in 11..22 /\ HexVal(a[i]) = HexVal(b[i])

\* C13: verifyWebhookMac returns true exactly when the provided MAC equals,
\* but for the case of its letters, the MAC computeWebhookMac yields for the
\* same secret and fields; a MAC of another length or with another
\* character is refused.
C13_MacCaseInsensitive ==
  call.fn = "verifyWebhookMac" =>
    LET f == call.args.fields
        expected == computeWebhookMac(call.args.apiSecret, f.from, f.to, f.messageId,
                                      f.date, f.nonce, f.box)
    IN  call.ret = sameIgnoringCase(call.args.mac, expected)

\* C13 witness: the computed MAC was accepted in upper case, with a letter in it
C13_Witness ==
  /\ call.fn = "verifyWebhookMac" /\ prev.fn = "computeWebhookMac"
  /\ call.args.fields = prev.args.fields
  /\ call.args.mac = toUpperCase(prev.ret) /\ call.args.mac # prev.ret
  /\ call.ret = TRUE

\* decryptMessage was handed the envelope of the call before it, unchanged,
\* with the public key of its sender and the secret key of its recipient
rightEnvelope ==
  /\ call.fn = "decryptMessage" /\ prev.fn = "encryptTextMessage"
  /\ call.args.box = prev.ret.box /\ call.args.nonce = prev.ret.nonce
rightSender ==
  call.args.senderPublicKey = getPublicKeyFromSecretKey(prev.args.senderSecretKey)
rightRecipient ==
  getPublicKeyFromSecretKey(call.args.recipientSecretKey) = prev.args.recipientPublicKey
rightKeys == rightSender /\ rightRecipient

\* C16: for all key pairs a and b and every text t of at most 3500 UTF-8
\* bytes, decryptMessage on the envelope of encryptTextMessage(t,
\* b.publicKey, a.secretKey) with (a.publicKey, b.secretKey) yields a text
\* message whose text is t.
C16_EncryptRoundTrip ==
  (rightEnvelope /\ rightKeys) =>
    /\ call.ret.st = "ok"
    /\ call.ret.type = MessageTypeText
    /\ call.ret.text = prev.args.text

\* C17: decryptMessage reports every failure as null and never raises: null
\* for a box that does not authenticate under the keys and nonce given
\* (wrong recipient key, wrong sender key, a changed byte), and null for a
\* box that authenticates but whose plaintext has a bad padding trailer or
\* unpads to nothing.
C17_DecryptFailsWithNull ==
  call.fn = "decryptMessage" =>
    LET opened == naclBoxOpen(call.args.box, call.args.nonce, call.args.senderPublicKey,
                              call.args.recipientSecretKey)
    IN  /\ call.ret.st \in {"ok", "null"}
        /\ (rightEnvelope /\ rightSender /\ ~rightRecipient) => call.ret.st = "null"
        /\ (rightEnvelope /\ ~rightSender /\ rightRecipient) => call.ret.st = "null"
        /\ (prev.fn = "encryptTextMessage" /\ ~rightEnvelope /\ rightKeys)
             => call.ret.st = "null"
        /\ (opened.st = "ok" /\ (~unpadMessage(opened.msg).ok
                                  \/ unpadMessage(opened.msg).bytes = <<>>))
             => call.ret.st = "null"

\* the number of bytes UTF-8 needs for a text
RECURSIVE utf8Length(_, _, _)
utf8Length(text, lo, hi) ==
  IF lo > hi THEN 0
  ELSE IF lo = hi
  THEN (IF text[lo] < 128 THEN 1 ELSE IF text[lo] < 2048 THEN 2
        ELSE IF text[lo] < 65536 THEN 3 ELSE 4)
  ELSE utf8Length(text, lo, (lo + hi) \div 2) + utf8Length(text, ((lo + hi) \div 2) + 1, hi)

\* C18: encryptTextMessage fails exactly when the text has more than 3500
\* UTF-8 bytes; a text of 3500 bytes is encrypted, one of 3501 is refused,
\* and a refusal draws no nonce and gives no envelope.
C18_TooLarge ==
  call.fn = "encryptTextMessage" =>
    LET n == utf8Length(call.args.text, 1, Len(call.args.text))
    IN  /\ call.ret.st = "throws" <=> n > 3500
        /\ call.ret.st = "throws" =>
             call.ret.random = 0 /\ call.ret.nonce = <<>> /\ call.ret.box = <<>>
        /\ call.ret.st = "ok" =>
             call.ret.random = 1 /\ Len(call.ret.nonce) = 24 /\ call.ret.box # <<>>

\* C18 witness: a text of 1751 characters and 3501 bytes was refused
C18_Witness ==
  /\ call.fn = "encryptTextMessage"
  /\ Len(call.args.text) = 1751
  /\ utf8Length(call.args.text, 1, Len(call.args.text)) = 3501
  /\ call.ret.st = "throws" /\ call.ret.random = 0


\* the errors of a cached send that has no usable public key of the recipient
KeyUnavailable == {"lookup failed", "Could not fetch public key", "Invalid hex string"}

\* C20: a sendText for a configured account, in e2e or in basic mode, and a
\* valid recipient, whose text is longer than 3500 bytes in UTF-8, issues
\* no send_e2e and no send_simple request, and it ends with the too-large
\* error (or, in a cached send, with the recipient's key unavailable)
C20_OversizeNeverSent ==
  \A s \in 1..MaxSends :
    LET q == sends[s]
    IN  (q.pc # "none" /\ q.account.mode \in {"e2e", "basic"} /\ q.to # <<>>
         /\ sendTextBytes[q.text] > TEXT_MAX_BYTES)
        => /\ \A i \in 1..Len(q.requests) :
                q.requests[i].endpoint \notin {"send_e2e", "send_simple"}
           /\ q.pc = "done" => q.result \in {"Message too large"} \cup KeyUnavailable


\* the keys of a Map, in its order
keysOf(entries) == [i \in 1..Len(entries) |-> entries[i].key]

\* C21: an insertion of an identifier that is not in a Map holding
\* MAX_CACHE_SIZE entries removes the entry inserted earliest and no other,
\* and puts the new entry last; a get leaves the Map and its order as they
\* were, so the entry removed is the earliest one however lately it was read
C21_EvictsOldestInserted ==
  /\ (call.fn = "add" /\ Len(call.args.cache) = MAX_CACHE_SIZE
       /\ ~cacheHas(call.args.cache, call.args.key))
      => call.ret.cache =
           Append(Tail(call.args.cache), [key |-> call.args.key, value |-> call.args.value])
  /\ call.fn = "get" => call.ret.cache = call.args.cache

\* the oldest entry of a full publicKeyCache was read, then a new identifier
\* was inserted
C21_Witness ==
  /\ call.fn = "add" /\ call.args.map = "publicKeyCache"
  /\ Len(call.args.cache) = MAX_CACHE_SIZE
  /\ ~cacheHas(call.args.cache, call.args.key)
  /\ prev.fn = "get" /\ prev.args.key = call.args.cache[1].key /\ prev.ret.value # <<>>
  /\ keysOf(call.ret.cache) = Tail(keysOf(call.args.cache)) \o <<call.args.key>>


\* C22: each key cache holds at most MAX_CACHE_SIZE entries, every key in it
\* is an upper-cased identifier, and no key is in it twice
C22_CachesBounded ==
  \A entries \in {publicKeyCache, senderPublicKeyCache} :
    /\ Len(entries) <= MAX_CACHE_SIZE
    /\ \A i \in 1..Len(entries) : entries[i].key = toUpperCase(entries[i].key)
    /\ \A i, j \in 1..Len(entries) : entries[i].key = entries[j].key => i = j

\* both caches are full; the sender cache got its last key from a callback
\* that names the sender in lower case, while a cached send looked its
\* recipient up and is waiting for the gateway
C22_Witness ==
  /\ Len(publicKeyCache) = MAX_CACHE_SIZE /\ Len(senderPublicKeyCache) = MAX_CACHE_SIZE
  /\ \E r \in 1..MaxReqs :
       /\ reqs[r].pc = "done" /\ reqs[r].lookups = 1 /\ reqs[r].delivered # <<>>
       /\ bodyOf(reqs[r]).from = toLowerCase(SenderA)
       /\ senderPublicKeyCache[Len(senderPublicKeyCache)].key = SenderA
  /\ \E s \in 1..MaxSends : sends[s].pc = "fetch" /\ sends[s].lookups = 1


\* C23: the credentials stored for reconnection change only in a step that
\* has opened the new connection, so a connect command that fails at the
\* identity load or at the opening of the connection leaves them as they were
C23_CredentialsAfterConnectStep ==
  (backup' # backup \/ password' # password) => (conn' # 0 /\ conn' # conn)
C23_CredentialsAfterConnect == [][C23_CredentialsAfterConnectStep]_vars

\* the reconnect attempts between b.mu.Lock() and b.mu.Unlock()
attempting == {i \in DOMAIN tasks : tasks[i].pc = "connect"}

\* the connect commands and reconnect attempts inside their section
inSection == (IF readPc = "connect" THEN 1 ELSE 0) + Cardinality(attempting)

C24_Exclusive ==
  /\ inSection <= 1
  /\ mu = "cmd" <=> readPc = "connect"
  /\ mu = "task" <=> attempting # {}

C24_WriteStep ==
  (id' # id \/ conn' # conn \/ backup' # backup \/ password' # password) =>
    \/ mu = "free" /\ readPc = "line" /\ readPc' \in {"scan", "connect"}
    \/ mu = "free" /\ \E i \in DOMAIN tasks : tasks[i].pc = "lock" /\ tasks'[i].pc = "connect"
    \/ mu = "cmd" /\ readPc = "connect" /\ mu' = "free"
    \/ mu = "task" /\ mu' = "free" /\ \E i \in attempting : tasks'[i].pc # "connect"

C24_ReadStep ==
  (\E l \in Lines : handleSend(l) \/ handleTrust(l)) => inSection = 0

\* C24: identity, connection handle and credentials are written only by the
\* holder of b.mu: never are two of a connect command and the reconnect
\* attempts inside their sections together, every write is made by a step
\* that takes the free lock or by the holder that then releases it, and a
\* send or trust runs only while nobody is inside a section.
C24_ExclusiveSection == [](C24_Exclusive) /\ [][C24_WriteStep /\ C24_ReadStep]_vars

\* a reconnect attempt holds the lock while another reconnect goroutine
\* waits for it and a command line waits to be handled
C24_Witness ==
  /\ readPc = "line"
  /\ \E i \in attempting : \E j \in DOMAIN tasks : j # i /\ tasks[j].pc = "lock"

\* the steps that offer exactly one event to emit
emitStep ==
  \/ \E l \in Lines : handlePing(l)
  \/ \E c \in 1..MaxConns : handlerMessage(c)
  \/ \E i \in DOMAIN tasks : reconnectEmit(i)

C25_EmitStep ==
  (emitStep /\ Len(output) < OutputCap) => Len(output') = Len(output) + 1

\* C25: emit returns at once, and whenever the queue holds fewer events than
\* its capacity the event offered is enqueued, before and after shutdown.
C25_EnqueuedWhenRoom == [][C25_EmitStep]_vars

\* the write loop takes the event at the head of the queue and encodes it
written == writePc \in {"loop", "drain"} /\ output # <<>> /\ output' = Tail(output)

\* an event is enqueued behind the events that wait
enqueued == \E e \in {EventConnected, EventMessage, EventError, EventPong} : output' = Append(output, e)

C26_DrainStep ==
  /\ output' # output => (written \/ enqueued)
  /\ (writePc # "done" /\ writePc' = "done") => (shutdown /\ output = <<>> /\ output' = <<>>)

live == {c \in 1..Len(conns) : conns[c] = "live"}

\* C27: at most one connection opened by the bridge is live, and a live
\* connection is the one b.conn names, so that Run can close it on shutdown.
C27_OneLiveConnection == Cardinality(live) <= 1 /\ \A c \in live : conn = c

\* C28: at most one reconnect goroutine waits or attempts at any time.
C28_OneReconnectCycle == Cardinality(active) <= 1

\* the identifiers cached in a Map
cachedIds(entries) == {entries[i].key : i \in 1..Len(entries)}

\* a cached send inserts the key it has looked up
inserts == sends' # sends /\ publicKeyCache' # publicKeyCache

C29_EvictionStep ==
  (inserts /\ cachedIds(publicKeyCache) \ cachedIds(publicKeyCache') # {}) =>
    /\ Len(publicKeyCache) >= MAX_CACHE_SIZE
    /\ cachedIds(publicKeyCache') \ cachedIds(publicKeyCache) # {}

\* C29: an insertion removes an entry only when the cache is full and the
\* identifier inserted was not cached: the second of two overlapping sends
\* that missed on one identifier evicts nothing.
C29_EvictsOnlyForNewKey == [][C29_EvictionStep]_vars

C30_ReturnStep ==
  \A s \in 1..MaxSends :
    (sends[s].pc = "done" /\ sends'[s].pc = "returned") =>
      LET returned == sends'[s].result
      IN  /\ sends[s].result = "messageId" =>
                returned.thrown = "" /\ returned.ok /\ returned.messageId = "messageId"
          /\ (returned.thrown = "" /\ ~returned.ok) => sends[s].result # "messageId"

\* C30: when sendText resolves with a messageId, outbound.send returns
\* ok: true with that messageId, and it returns ok: false only when sendText
\* did not resolve with a messageId.
C30_SendReportsOutcome == [][C30_ReturnStep]_vars

====
